---- MODULE Spec2Model ----
(***************************************************************************)
(* Model of the LLM request orchestration of LLMService (multi-key        *)
(* revision, src/unnamed/part_004): credential pool, Transport A          *)
(* (generateContent), Transport B (executeAlternativeRequest), the retry  *)
(* loop of executeRequest and the fallback policy of processTextWithSkill.*)
(* One step of the model is one run of JavaScript between two awaits.     *)
(***************************************************************************)
EXTENDS Integers, Sequences, FiniteSets, TLC

\* ---------------------------------------------------------------- bounds
MaxKeys == 2
MaxFragments == 2

\* turns of a request and parts of a turn
MaxTurns == 2

MaxParts == 1

\* credentials of a pool whose operations are called on their own
MaxPool == 3
MaxRequests == 2
NumSlots == 2
SentCap == 2

\* ------------------------------------------------------ program constants
MaxRetries == 5
AltMaxRetries == 3
DelayCap == 10000
NetworkBaseDelay == 2000
OtherBaseDelay == 1000
AltBaseDelay == 2000
JitterRange == 1000

Slots == 1..NumSlots
Skills == {"dsa", "behavioral"}
Jitters == {0, JitterRange - 1}

\* ------------------------------------------------------------ error values
\* the needles of analyzeError, by the kind whose check looks for them
KindTriggers(kind) ==
  CASE kind = "NETWORK_ERROR" ->
         {"fetch failed", "network error", "enotfound", "econnrefused", "econnreset",
          "econnaborted", "socket hang up", "connection reset"}
    [] kind = "AUTH_ERROR" -> {"unauthorized", "invalid api key", "forbidden", "401", "403"}
    [] kind = "RATE_LIMIT_ERROR" ->
         {"quota", "rate limit", "too many requests", "429", "resource exhausted"}
    [] kind = "TIMEOUT_ERROR" -> {"request timeout", "timeout", "timed out"}
    [] kind = "SERVER_ERROR" ->
         {"500", "502", "503", "504", "internal server error", "bad gateway",
          "service unavailable"}
    [] kind = "INVALID_REQUEST_ERROR" -> {"400", "bad request", "invalid request"}
    [] OTHER -> {}

\* the kinds in the order of the checks of analyzeError
KindOrder ==
  <<"NETWORK_ERROR", "AUTH_ERROR", "RATE_LIMIT_ERROR", "TIMEOUT_ERROR", "SERVER_ERROR",
    "INVALID_REQUEST_ERROR">>

Triggers == UNION {KindTriggers(KindOrder[i]) : i \in 1..Len(KindOrder)}

\* An error message is a set of text fragments; includes() looks for a
\* needle inside one of the fragments.
Needles(f) ==
  CASE f = "fetch failed" -> {"fetch failed"}
    [] f = "read econnreset" -> {"econnreset"}
    [] f = "[401 unauthorized]" -> {"401", "unauthorized"}
    [] f = "[403 forbidden]" -> {"403", "forbidden"}
    [] f = "quota exceeded" -> {"quota"}
    [] f = "[429 too many requests]" -> {"429", "too many requests"}
    [] f = "request timeout" -> {"request timeout", "timeout"}
    [] f = "[503 service unavailable]" -> {"503", "service unavailable"}
    [] f = "[400 bad request]" -> {"400", "bad request"}
    [] f = "http 429" -> {"429"}
    [] f = "http 500" -> {"500"}
    [] f = "http 403" -> {"403"}
    [] f = "alternative request timeout" -> {"timeout"}
    [] f = "alternative request failed: getaddrinfo enotfound" -> {"enotfound"}
    [] f \in Triggers -> {f}
    [] OTHER -> {}

ToLowerCase(f) ==
  CASE f = "read ECONNRESET" -> "read econnreset"
    [] f = "[401 Unauthorized]" -> "[401 unauthorized]"
    [] f = "[403 Forbidden]" -> "[403 forbidden]"
    [] f = "[429 Too Many Requests]" -> "[429 too many requests]"
    [] f = "Request timeout" -> "request timeout"
    [] f = "[503 Service Unavailable]" -> "[503 service unavailable]"
    [] f = "[400 Bad Request]" -> "[400 bad request]"
    [] f = "HTTP 429" -> "http 429"
    [] f = "HTTP 500" -> "http 500"
    [] f = "HTTP 403" -> "http 403"
    [] f = "Alternative request timeout" -> "alternative request timeout"
    [] f = "Alternative request failed: getaddrinfo ENOTFOUND" -> "alternative request failed: getaddrinfo enotfound"
    [] f = "Empty text content in Gemini response" -> "empty text content in gemini response"
    [] f = "Gemini API failed after 5 attempts: " -> "gemini api failed after 5 attempts: "
    [] f = "Gemini API error (non-retryable): " -> "gemini api error (non-retryable): "
    [] f = "ECONNREFUSED" -> "econnrefused"
    [] f = "Socket Hang Up" -> "socket hang up"
    [] f = "Invalid API Key" -> "invalid api key"
    [] f = "Resource Exhausted" -> "resource exhausted"
    [] f = "Timed Out" -> "timed out"
    [] f = "Bad Gateway" -> "bad gateway"
    [] f = "Invalid Request" -> "invalid request"
    [] f = "Something Went Wrong" -> "something went wrong"
    [] OTHER -> f

MessageToLowerCase(msg) == {ToLowerCase(f) : f \in msg}

Includes(msg, needle) == \E f \in msg : needle \in Needles(f)

Err(m, s) == [message |-> m, status |-> s]

NoError == Err({}, 0)

\* Failures of Transport A (generateContent raced against the timer).
AErrors ==
  { Err({"fetch failed"}, 0),
    Err({"read ECONNRESET"}, 0),
    Err({"[401 Unauthorized]"}, 401),
    Err({"[403 Forbidden]", "quota exceeded"}, 403),
    Err({"[429 Too Many Requests]", "quota exceeded"}, 429),
    Err({"Request timeout"}, 0),
    Err({"[400 Bad Request]"}, 400),
    Err({"Empty text content in Gemini response"}, 0) }

\* Failures of Transport B (_makeAlternativeRequest): statusCode is set for
\* non-200 replies only.
BErrors ==
  { Err({"HTTP 429"}, 429),
    Err({"HTTP 500"}, 500),
    Err({"HTTP 403"}, 403),
    Err({"Alternative request timeout"}, 0),
    Err({"Alternative request failed: getaddrinfo ENOTFOUND"}, 0) }

\* --------------------------------------------------------- analyzeError
ErrorInfo(t, net, retry) == [type |-> t, isNetworkError |-> net, isRetryable |-> retry]

NoErrorInfo == ErrorInfo("NONE", FALSE, FALSE)

\* analyzeError with TIMEOUT_ERROR not flagged as a network error
analyzeErrorTimeoutNotNetwork(error) ==
  LET errorMessage == MessageToLowerCase(error.message)
      has(n) == Includes(errorMessage, n)
  IN IF has("fetch failed") \/ has("network error") \/ has("enotfound")
        \/ has("econnrefused") \/ has("econnreset") \/ has("econnaborted")
        \/ has("socket hang up") \/ has("connection reset")
     THEN ErrorInfo("NETWORK_ERROR", TRUE, TRUE)
     ELSE IF has("unauthorized") \/ has("invalid api key") \/ has("forbidden")
             \/ has("401") \/ has("403")
     THEN ErrorInfo("AUTH_ERROR", FALSE, FALSE)
     ELSE IF has("quota") \/ has("rate limit") \/ has("too many requests")
             \/ has("429") \/ has("resource exhausted")
     THEN ErrorInfo("RATE_LIMIT_ERROR", FALSE, TRUE)
     ELSE IF has("request timeout") \/ has("timeout") \/ has("timed out")
     THEN ErrorInfo("TIMEOUT_ERROR", FALSE, TRUE)
     ELSE IF has("500") \/ has("502") \/ has("503") \/ has("504")
             \/ has("internal server error") \/ has("bad gateway")
             \/ has("service unavailable")
     THEN ErrorInfo("SERVER_ERROR", FALSE, TRUE)
     ELSE IF has("400") \/ has("bad request") \/ has("invalid request")
     THEN ErrorInfo("INVALID_REQUEST_ERROR", FALSE, FALSE)
     ELSE ErrorInfo("UNKNOWN_ERROR", FALSE, TRUE)

\* analyzeError with the rate-limit check ahead of the API key check
analyzeErrorRateLimitFirst(error) ==
  LET errorMessage == MessageToLowerCase(error.message)
      has(n) == Includes(errorMessage, n)
  IN IF has("fetch failed") \/ has("network error") \/ has("enotfound")
        \/ has("econnrefused") \/ has("econnreset") \/ has("econnaborted")
        \/ has("socket hang up") \/ has("connection reset")
     THEN ErrorInfo("NETWORK_ERROR", TRUE, TRUE)
     ELSE IF has("quota") \/ has("rate limit") \/ has("too many requests")
             \/ has("429") \/ has("resource exhausted")
     THEN ErrorInfo("RATE_LIMIT_ERROR", FALSE, TRUE)
     ELSE IF has("unauthorized") \/ has("invalid api key") \/ has("forbidden")
             \/ has("401") \/ has("403")
     THEN ErrorInfo("AUTH_ERROR", FALSE, FALSE)
     ELSE IF has("request timeout") \/ has("timeout") \/ has("timed out")
     THEN ErrorInfo("TIMEOUT_ERROR", TRUE, TRUE)
     ELSE IF has("500") \/ has("502") \/ has("503") \/ has("504")
             \/ has("internal server error") \/ has("bad gateway")
             \/ has("service unavailable")
     THEN ErrorInfo("SERVER_ERROR", FALSE, TRUE)
     ELSE IF has("400") \/ has("bad request") \/ has("invalid request")
     THEN ErrorInfo("INVALID_REQUEST_ERROR", FALSE, FALSE)
     ELSE ErrorInfo("UNKNOWN_ERROR", FALSE, TRUE)

analyzeError(error) ==
  LET errorMessage == MessageToLowerCase(error.message)
      has(n) == Includes(errorMessage, n)
  IN IF has("fetch failed") \/ has("network error") \/ has("enotfound")
        \/ has("econnrefused") \/ has("econnreset") \/ has("econnaborted")
        \/ has("socket hang up") \/ has("connection reset")
     THEN ErrorInfo("NETWORK_ERROR", TRUE, TRUE)
     ELSE IF has("unauthorized") \/ has("invalid api key") \/ has("forbidden")
             \/ has("401") \/ has("403")
     THEN ErrorInfo("AUTH_ERROR", FALSE, FALSE)
     ELSE IF has("quota") \/ has("rate limit") \/ has("too many requests")
             \/ has("429") \/ has("resource exhausted")
     THEN ErrorInfo("RATE_LIMIT_ERROR", FALSE, TRUE)
     ELSE IF has("request timeout") \/ has("timeout") \/ has("timed out")
     THEN ErrorInfo("TIMEOUT_ERROR", TRUE, TRUE)
     ELSE IF has("500") \/ has("502") \/ has("503") \/ has("504")
             \/ has("internal server error") \/ has("bad gateway")
             \/ has("service unavailable")
     THEN ErrorInfo("SERVER_ERROR", FALSE, TRUE)
     ELSE IF has("400") \/ has("bad request") \/ has("invalid request")
     THEN ErrorInfo("INVALID_REQUEST_ERROR", FALSE, FALSE)
     ELSE ErrorInfo("UNKNOWN_ERROR", FALSE, TRUE)

\* ------------------------------------------------------- credential pool
Pool(cur, exh) == [currentKeyIndex |-> cur, exhaustedKeys |-> exh]

\* the while loop of getNextModel without the test of exhaustedKeys
FindAvailableUntested(n, cur, exh, attempts) ==
  IF attempts >= n THEN [found |-> FALSE, index |-> cur] ELSE [found |-> TRUE, index |-> cur]

RECURSIVE FindAvailable(_, _, _, _)
\* the while loop of getNextModel: attempts counts the keys already skipped
FindAvailable(n, cur, exh, attempts) ==
  IF attempts >= n THEN [found |-> FALSE, index |-> cur]
  ELSE IF cur \notin exh THEN [found |-> TRUE, index |-> cur]
  ELSE FindAvailable(n, (cur + 1) % n, exh, attempts + 1)

\* getNextModel without exhaustedKeys.clear() (line 91)
getNextModelNoClear(n, pool) ==
  IF n = 0 THEN [pool |-> pool, index |-> -1, reset |-> FALSE]
  ELSE IF n = 1 THEN [pool |-> pool, index |-> 0, reset |-> FALSE]
  ELSE LET r == FindAvailable(n, pool.currentKeyIndex, pool.exhaustedKeys, 0)
       IN IF r.found
          THEN [pool |-> Pool(r.index, pool.exhaustedKeys), index |-> r.index, reset |-> FALSE]
          ELSE [pool |-> Pool(0, pool.exhaustedKeys), index |-> 0, reset |-> TRUE]

\* getNextModel: the pool after the call, the index of the model returned
\* and whether the pool was reset
getNextModel(n, pool) ==
  IF n = 0 THEN [pool |-> pool, index |-> -1, reset |-> FALSE]
  ELSE IF n = 1 THEN [pool |-> pool, index |-> 0, reset |-> FALSE]
  ELSE LET r == FindAvailable(n, pool.currentKeyIndex, pool.exhaustedKeys, 0)
       IN IF r.found
          THEN [pool |-> Pool(r.index, pool.exhaustedKeys), index |-> r.index, reset |-> FALSE]
          ELSE [pool |-> Pool(0, {}), index |-> 0, reset |-> TRUE]

\* markKeyExhausted moving to the next index without wrapping round
markKeyExhaustedNoWrap(n, pool, keyIndex) ==
  Pool(pool.currentKeyIndex + 1, pool.exhaustedKeys \cup {keyIndex})

\* lines 96-107
markKeyExhausted(n, pool, keyIndex) ==
  Pool((pool.currentKeyIndex + 1) % n, pool.exhaustedKeys \cup {keyIndex})

\* ------------------------------------------------------------- the state
\* call[c] holds the locals of call c; last[c] is the transport reply the
\* latest step of call c received: the transport, the credential index and
\* the error (NoError for a success); probe holds the argument and the result
\* of a function of the service that is called on its own
VARIABLES numModels, isInitialized, currentKeyIndex, exhaustedKeys,
          requestCount, errorCount, fallbackEnabled, enableFallbackMethod,
          maxActive, call, last, probe

vars == <<numModels, isInitialized, currentKeyIndex, exhaustedKeys,
          requestCount, errorCount, fallbackEnabled, enableFallbackMethod,
          maxActive, call, last, probe>>

\* the state of the service, without the probe
service == <<numModels, isInitialized, currentKeyIndex, exhaustedKeys,
             requestCount, errorCount, fallbackEnabled, enableFallbackMethod,
             maxActive, call, last>>

NoProbe == [op |-> "none"]

Null == -1

NoOutcome == [kind |-> "none"]

NoAttempt == [by |-> "", key |-> Null, error |-> NoError]

\* the locals of one processTextWithSkill call (and of the executeRequest and
\* executeAlternativeRequest frames below it); resets counts the pool resets
\* this call performed and sent the transport requests (A and B) it issued,
\* counted up to SentCap; onlyRateLimit tells that every transport attempt of
\* the call so far was a Transport A attempt that failed with RATE_LIMIT_ERROR.
\* Locals are kept only while they are live: the catch block assigns
\* lastError before anything reads it, and the frame of
\* executeAlternativeRequest is gone when it throws into the retry loop.
IdleCall ==
  [pc |-> "idle", skill |-> "", attempt |-> 0, keyIndex |-> Null,
   lastError |-> NoError, ctx |-> "", keysToTry |-> <<>>, kpos |-> 0,
   altAttempt |-> 0, altLastError |-> NoError, nextKeyIndex |-> Null,
   exponentialDelay |-> 0, delay |-> 0, resets |-> 0, sent |-> 0,
   onlyRateLimit |-> TRUE,
   outcome |-> NoOutcome]

\* one more transport request; the count stops at SentCap
Counted(sent) == IF sent < SentCap THEN sent + 1 ELSE sent

\* a step's intermediate configuration: the pool, errorCount and the locals
Cfg(pool, errs, l) == [pool |-> pool, errs |-> errs, l |-> l]

\* ------------------------------------------------- processTextWithSkill
FallbackResponses(activeSkill) ==
  CASE activeSkill = "dsa" -> "This appears to be a data structures and algorithms problem."
    [] activeSkill = "system-design" -> "For this system design question, consider scalability."
    [] activeSkill = "programming" -> "This looks like a programming challenge."
    [] OTHER -> "I can help analyze this content."

\* generateFallbackResponse that always answers with the default entry
generateFallbackResponseDefaultOnly(activeSkill, reqCount) ==
  [kind |-> "returned",
   response |-> [text |-> FallbackResponses("default")],
   metadata |-> [skill |-> activeSkill, requestId |-> reqCount, usedFallback |-> TRUE]]

generateFallbackResponse(activeSkill, reqCount) ==
  [kind |-> "returned",
   response |-> [text |-> FallbackResponses(activeSkill)],
   metadata |-> [skill |-> activeSkill, requestId |-> reqCount, usedFallback |-> TRUE]]

\* the response text a transport produced: which transport and credential
ModelText(by, key) == [text |-> "model answer", by |-> by, key |-> key]

\* lines 194-217: the success return of processTextWithSkill
ReturnSuccess(g, response, usedAlternativeMethod) ==
  Cfg(g.pool, g.errs,
      [g.l EXCEPT !.pc = "done", !.onlyRateLimit = FALSE,
                  !.outcome = [kind |-> "returned",
                               response |-> [response EXCEPT !.text = "extractMcqAnswer(model answer)"],
                               metadata |-> [skill |-> g.l.skill, requestId |-> requestCount,
                                             usedFallback |-> FALSE,
                                             usedAlternativeMethod |-> usedAlternativeMethod]]])

\* OuterCatch that rethrows whatever llm.gemini.fallbackEnabled says
OuterCatchRethrows(g, error) ==
  Cfg(g.pool, g.errs + 1,
      [g.l EXCEPT !.pc = "done", !.outcome = [kind |-> "raised", error |-> error]])

\* lines 218-261: the outer catch of processTextWithSkill
OuterCatch(g, error) ==
  Cfg(g.pool, g.errs + 1,
      [g.l EXCEPT !.pc = "done",
                  !.outcome = IF fallbackEnabled
                              THEN generateFallbackResponse(g.l.skill, requestCount)
                              ELSE [kind |-> "raised", error |-> error]])

\* an error object as thrown by a transport, without the fields that
\* executeRequest adds to its final errors
Raw(error) ==
  [message |-> error.message, status |-> error.status,
   errorAnalysis |-> NoErrorInfo, originalError |-> NoError]

\* FinalError that forgets to attach errorAnalysis
FinalErrorUnclassified(prefix, error, errorInfo) ==
  [message |-> {prefix} \cup error.message, status |-> 0,
   errorAnalysis |-> NoErrorInfo, originalError |-> error]

\* lines 853-855, 957-959, 985-987: the errors executeRequest throws
FinalError(prefix, error, errorInfo) ==
  [message |-> {prefix} \cup error.message, status |-> 0,
   errorAnalysis |-> errorInfo, originalError |-> error]

\* --------------------------------------------- executeAlternativeRequest
RECURSIVE KeysFrom(_, _, _, _)
\* lines 1733-1739: the non-exhausted indices in cyclic order from start
KeysFrom(n, start, exh, i) ==
  IF i >= n THEN <<>>
  ELSE LET idx == (start + i) % n
       IN (IF idx \notin exh THEN <<idx>> ELSE <<>>) \o KeysFrom(n, start, exh, i + 1)

\* lines 1705-1767: entry of executeAlternativeRequest up to its first await
EnterAlternative(g, ctx, keyIndex) ==
  LET n == numModels
      currentKeyIdx == IF keyIndex # Null /\ keyIndex < n THEN keyIndex
                       ELSE IF g.pool.currentKeyIndex < n THEN g.pool.currentKeyIndex ELSE 0
      avail == KeysFrom(n, currentKeyIdx, g.pool.exhaustedKeys, 0)
      allExhausted == avail = <<>>
  IN Cfg(IF allExhausted THEN Pool(g.pool.currentKeyIndex, {}) ELSE g.pool,
         g.errs,
         [g.l EXCEPT !.pc = "awaitB", !.ctx = ctx, !.sent = Counted(@),
                     !.onlyRateLimit = FALSE,
                     !.keysToTry = IF allExhausted THEN <<currentKeyIdx>> ELSE avail,
                     !.kpos = 1, !.altAttempt = 1, !.altLastError = NoError,
                     !.nextKeyIndex = keyIndex,
                     !.resets = IF allExhausted THEN @ + 1 ELSE @])

_isAlternativeRequestRetryable(errorMessage, statusCode) ==
  LET message == MessageToLowerCase(errorMessage)
  IN IF errorMessage = {} THEN FALSE
     ELSE IF statusCode = 503 \/ statusCode = 429 \/ (statusCode >= 500 /\ statusCode <= 504) THEN TRUE
     ELSE IF Includes(message, "timeout") THEN TRUE
     ELSE IF Includes(message, "econnreset") \/ Includes(message, "econnaborted")
             \/ Includes(message, "socket hang up") \/ Includes(message, "connection reset") THEN TRUE
     ELSE FALSE

\* a quota test that takes no failure for a quota failure
AltIsQuotaErrorNoFailure(error) == FALSE

\* a quota test that takes every failure for a quota failure
AltIsQuotaErrorAnyFailure(error) == TRUE

\* lines 1783-1787
AltIsQuotaError(error) ==
  LET m == MessageToLowerCase(error.message)
  IN error.status = 429 \/ error.status = 503 \/ Includes(m, "quota")
     \/ Includes(m, "rate limit") \/ Includes(m, "overloaded")

AltBackoffDelay(attempt) ==
  LET d == AltBaseDelay * (2 ^ (attempt - 1))
  IN IF d < DelayCap THEN d ELSE DelayCap

\* ------------------------------------------------------- executeRequest
\* `const currentKeyIndex` (line 770) is declared inside the try block, so it
\* is out of scope in the catch block (lines 795-981), where every use is
\* guarded by `typeof currentKeyIndex !== 'undefined'`: the guard is false.
TypeofCurrentKeyIndexDefinedInCatch == FALSE

\* lines 133-192: the catch around executeRequest in processTextWithSkill
ExecuteRequestThrows(g, finalError) ==
  IF Includes(finalError.message, "fetch failed") /\ enableFallbackMethod
  THEN EnterAlternative(g, "outerSame", Null)
  ELSE OuterCatch(g, finalError)

\* lines 764-774: select the credential and issue Transport A
BeginAttempt(g) ==
  LET r == getNextModel(numModels, g.pool)
  IN Cfg(r.pool, g.errs,
         [g.l EXCEPT !.pc = "awaitA", !.keyIndex = r.pool.currentKeyIndex,
                     !.lastError = NoError,
                     !.sent = Counted(@),
                     !.resets = IF r.reset THEN @ + 1 ELSE @])

\* a loop header that does not advance attempt
LoopIncrementStuck(attempt) == attempt

\* line 728: attempt++
LoopIncrement(attempt) == attempt + 1

\* line 728 (attempt++ and the loop test) and lines 984-988
NextIteration(g) ==
  LET a == LoopIncrement(g.l.attempt)
  IN IF a <= MaxRetries
     THEN BeginAttempt(Cfg(g.pool, g.errs,
                           [g.l EXCEPT !.attempt = a, !.exponentialDelay = 0, !.delay = 0]))
     ELSE ExecuteRequestThrows(g, FinalError("Gemini API failed after 5 attempts: ",
                                             g.l.lastError, analyzeError(g.l.lastError)))

\* ExponentialDelay with the base of the other errors for every error
ExponentialDelayOneBase(isNetworkError, attempt) == OtherBaseDelay * (2 ^ (attempt - 1))

\* lines 966-967: baseDelay * Math.pow(2, attempt - 1)
ExponentialDelay(isNetworkError, attempt) ==
  (IF isNetworkError THEN NetworkBaseDelay ELSE OtherBaseDelay) * (2 ^ (attempt - 1))

\* BackoffDelay without Math.min
BackoffDelayUncapped(exponentialDelay, jitter) == exponentialDelay + jitter

\* line 969: Math.min(exponentialDelay + jitter, 10000)
BackoffDelay(exponentialDelay, jitter) ==
  IF exponentialDelay + jitter < DelayCap THEN exponentialDelay + jitter ELSE DelayCap

\* lines 914-980: last-attempt handling and backoff
RetryTail(g, jitter) ==
  LET n == numModels
      error == g.l.lastError
      errorInfo == analyzeError(error)
      nextKeyIndex == (g.l.keyIndex + 1) % n
  IN IF g.l.attempt = MaxRetries
     THEN IF n > 1 /\ TypeofCurrentKeyIndexDefinedInCatch /\ nextKeyIndex # g.l.keyIndex
             /\ nextKeyIndex \notin g.pool.exhaustedKeys
          THEN Cfg(Pool(nextKeyIndex, g.pool.exhaustedKeys), g.errs,
                   [g.l EXCEPT !.pc = "awaitDirect", !.sent = Counted(@),
                               !.nextKeyIndex = nextKeyIndex,
                               !.onlyRateLimit = FALSE])
          ELSE ExecuteRequestThrows(g, FinalError("Gemini API failed after 5 attempts: ", error, errorInfo))
     ELSE LET exponentialDelay == ExponentialDelay(errorInfo.isNetworkError, g.l.attempt)
          IN Cfg(g.pool, g.errs,
                 [g.l EXCEPT !.pc = "backoff", !.exponentialDelay = exponentialDelay,
                             !.delay = BackoffDelay(exponentialDelay, jitter)])

IsQuotaError(error, errorInfo) ==
  LET errorMessage == MessageToLowerCase(error.message)
  IN errorInfo.type = "RATE_LIMIT_ERROR" \/ Includes(errorMessage, "quota")
     \/ Includes(errorMessage, "rate limit") \/ Includes(errorMessage, "429")
     \/ error.status = 429

\* AfterQuotaCheck without the early exit on a non-retryable error
AfterQuotaCheckNoAbort(g, jitter) ==
  LET errorInfo == analyzeError(g.l.lastError)
  IN IF errorInfo.type = "NETWORK_ERROR" /\ enableFallbackMethod /\ g.l.attempt <= 2
     THEN EnterAlternative(g, "loop",
                           IF TypeofCurrentKeyIndexDefinedInCatch THEN g.l.keyIndex ELSE Null)
     ELSE RetryTail(g, jitter)

\* AfterQuotaCheck with the raw-transport fallback on every attempt
AfterQuotaCheckOnEveryAttempt(g, jitter) ==
  LET error == g.l.lastError
      errorInfo == analyzeError(error)
  IN IF ~errorInfo.isRetryable
     THEN ExecuteRequestThrows(g, FinalError("Gemini API error (non-retryable): ", error, errorInfo))
     ELSE IF errorInfo.type = "NETWORK_ERROR" /\ enableFallbackMethod
     THEN EnterAlternative(g, "loop",
                           IF TypeofCurrentKeyIndexDefinedInCatch THEN g.l.keyIndex ELSE Null)
     ELSE RetryTail(g, jitter)

\* lines 847-912: non-retryable errors, then the raw-transport fallback
AfterQuotaCheck(g, jitter) ==
  LET error == g.l.lastError
      errorInfo == analyzeError(error)
  IN IF ~errorInfo.isRetryable
     THEN ExecuteRequestThrows(g, FinalError("Gemini API error (non-retryable): ", error, errorInfo))
     ELSE IF errorInfo.type = "NETWORK_ERROR" /\ enableFallbackMethod /\ g.l.attempt <= 2
     THEN EnterAlternative(g, "loop",
                           IF TypeofCurrentKeyIndexDefinedInCatch THEN g.l.keyIndex ELSE Null)
     ELSE RetryTail(g, jitter)

\* lines 795-823: the catch block of the retry loop
AttemptFailed(g0, error, jitter) ==
  LET n == numModels
      errorInfo == analyzeError(error)
      g == Cfg(g0.pool, g0.errs,
               [g0.l EXCEPT !.lastError = error,
                            !.onlyRateLimit = @ /\ errorInfo.type = "RATE_LIMIT_ERROR"])
  IN IF IsQuotaError(error, errorInfo) /\ TypeofCurrentKeyIndexDefinedInCatch /\ n > 1
     THEN LET marked == Cfg(markKeyExhausted(n, g.pool, g.l.keyIndex), g.errs, g.l)
          IN IF Cardinality(marked.pool.exhaustedKeys) < n
             THEN NextIteration(marked)
             ELSE AfterQuotaCheck(marked, jitter)
     ELSE AfterQuotaCheck(g, jitter)

\* lines 930-960: the outcome of the direct attempt with the next key
DirectAttemptFailed(g) ==
  ExecuteRequestThrows(g, FinalError("Gemini API failed after 5 attempts: ",
                                     g.l.lastError, analyzeError(g.l.lastError)))

\* ------------------------------ executeAlternativeRequest, continued
\* the frame of executeAlternativeRequest is left
FrameLeft(g) ==
  Cfg(g.pool, g.errs,
      [g.l EXCEPT !.ctx = "", !.keysToTry = <<>>, !.kpos = 0, !.altAttempt = 0,
                  !.altLastError = NoError, !.nextKeyIndex = Null])

\* what the caller does when executeAlternativeRequest throws error:
\* lines 875-911 in the retry loop, lines 151-187 in processTextWithSkill
AlternativeThrows(g, error, jitter) ==
  LET n == numModels
  IN CASE g.l.ctx = "loop" ->
            IF n > 1 /\ TypeofCurrentKeyIndexDefinedInCatch /\ (g.l.keyIndex + 1) % n # g.l.keyIndex
            THEN EnterAlternative(g, "loopNext", (g.l.keyIndex + 1) % n)
            ELSE RetryTail(FrameLeft(g), jitter)
       [] g.l.ctx = "loopNext" -> RetryTail(FrameLeft(g), jitter)
       [] g.l.ctx = "outerSame" ->
            IF n > 1
            THEN EnterAlternative(g, "outerNext", (g.pool.currentKeyIndex + 1) % n)
            ELSE OuterCatch(g, Raw(error))
       [] OTHER -> OuterCatch(g, Raw(error))

\* what the caller does with the text executeAlternativeRequest returns:
\* lines 869-874 and 892-900 in the retry loop, lines 143-169 in
\* processTextWithSkill
AlternativeReturns(g, result) ==
  LET moved == Cfg(Pool(g.l.nextKeyIndex, g.pool.exhaustedKeys), g.errs, g.l)
  IN CASE g.l.ctx = "loop" -> ReturnSuccess(g, result, FALSE)
       [] g.l.ctx = "loopNext" -> ReturnSuccess(moved, result, FALSE)
       [] g.l.ctx = "outerSame" -> ReturnSuccess(g, result, TRUE)
       [] OTHER -> ReturnSuccess(moved, result, TRUE)

\* lines 1750, 1765, 1836: the next key of keysToTry, or throw lastError
NextKey(g, jitter) ==
  IF g.l.kpos < Len(g.l.keysToTry)
  THEN Cfg(g.pool, g.errs, [g.l EXCEPT !.kpos = @ + 1, !.altAttempt = 1, !.sent = Counted(@)])
  ELSE AlternativeThrows(g, g.l.altLastError, jitter)

\* AlternativeSucceeded without the update of currentKeyIndex (line 1770)
AlternativeSucceededKeepsIndex(g) ==
  AlternativeReturns(g, ModelText("B", g.l.keysToTry[g.l.kpos]))

\* lines 1769-1776
AlternativeSucceeded(g) ==
  LET key == g.l.keysToTry[g.l.kpos]
  IN AlternativeReturns(Cfg(Pool(key, g.pool.exhaustedKeys), g.errs, g.l), ModelText("B", key))

\* lines 1777-1831
AlternativeFailed(g0, error, jitter) ==
  LET g == Cfg(g0.pool, g0.errs, [g0.l EXCEPT !.altLastError = error])
      key == g.l.keysToTry[g.l.kpos]
      isLastKey == g.l.kpos = Len(g.l.keysToTry)
  IN IF AltIsQuotaError(error)
     THEN NextKey(Cfg(markKeyExhausted(numModels, g.pool, key), g.errs, g.l), jitter)
     ELSE IF ~_isAlternativeRequestRetryable(error.message, error.status)
             \/ g.l.altAttempt = AltMaxRetries
     THEN IF isLastKey THEN AlternativeThrows(g, error, jitter) ELSE NextKey(g, jitter)
     ELSE Cfg(g.pool, g.errs,
              [g.l EXCEPT !.pc = "altBackoff", !.delay = AltBackoffDelay(g.l.altAttempt)])

\* ------------------------------------------------------------- actions
ThePool == Pool(currentKeyIndex, exhaustedKeys)

Here(c) == Cfg(ThePool, errorCount, call[c])

\* the step of call c received this reply of a transport (error is NoError
\* for a success); a step that received none records NoAttempt
Settled(c, by, key, error) ==
  last' = [last EXCEPT ![c] = [by |-> by, key |-> key, error |-> error]]

Unsettled(c) == last' = [last EXCEPT ![c] = NoAttempt]

\* install the configuration a step of call c ends in
Becomes(c, g) ==
  \E r \in {g} :
  /\ currentKeyIndex' = r.pool.currentKeyIndex
  /\ exhaustedKeys' = r.pool.exhaustedKeys
  /\ errorCount' = r.errs
  /\ call' = [call EXCEPT ![c] = r.l]
  /\ UNCHANGED <<numModels, isInitialized, requestCount, fallbackEnabled,
                 enableFallbackMethod, maxActive, probe>>

Active == {c \in Slots : call[c].pc # "idle"}

\* constructor and initializeClient (lines 7-65) with n configured keys
Init ==
  /\ numModels \in 0..MaxKeys
  /\ isInitialized = (numModels > 0)
  /\ currentKeyIndex = 0
  /\ exhaustedKeys = {}
  /\ requestCount = 0
  /\ errorCount = 0
  /\ fallbackEnabled \in BOOLEAN
  /\ enableFallbackMethod \in BOOLEAN
  /\ maxActive = 1
  /\ call = [c \in Slots |-> IdleCall]
  /\ last = [c \in Slots |-> NoAttempt]
  /\ probe = NoProbe

\* lines 109-132: a caller invokes processTextWithSkill; the call runs up to
\* the await of the preflight check of attempt 1
StartCall(c) ==
  /\ call[c].pc = "idle"
  /\ \A d \in Slots : d < c => call[d].pc # "idle"
  /\ Cardinality(Active) < maxActive
  /\ requestCount < MaxRequests
  /\ \E activeSkill \in Skills :
       IF ~isInitialized
       THEN /\ call' = [call EXCEPT ![c] =
                          [IdleCall EXCEPT !.pc = "done", !.skill = activeSkill,
                             !.outcome = [kind |-> "raised",
                                          error |-> Raw(Err({"LLM service not initialized"}, 0))]]]
            /\ UNCHANGED requestCount
       ELSE /\ call' = [call EXCEPT ![c] =
                          [IdleCall EXCEPT !.pc = "preflight", !.skill = activeSkill,
                                           !.attempt = 1]]
            /\ requestCount' = requestCount + 1
  /\ UNCHANGED <<numModels, isInitialized, currentKeyIndex, exhaustedKeys, errorCount,
                 fallbackEnabled, enableFallbackMethod, maxActive, last, probe>>

\* lines 731-774: performPreflightCheck settles; the attempt is issued
PreflightDone(c) ==
  /\ call[c].pc = "preflight"
  /\ Unsettled(c)
  /\ Becomes(c, BeginAttempt(Here(c)))

\* lines 774-794 and 795-981: Promise.race settles for a loop attempt
\* (lines 935-952 for the direct attempt with the next key)
TransportAReturns(c) ==
  LET key == IF call[c].pc = "awaitA" THEN call[c].keyIndex ELSE call[c].nextKeyIndex
  IN /\ call[c].pc \in {"awaitA", "awaitDirect"}
     /\ \/ /\ Settled(c, "A", key, NoError)
           /\ Becomes(c, ReturnSuccess(Here(c), ModelText("A", key), FALSE))
        \/ \E error \in AErrors :
             /\ Settled(c, "A", key, error)
             /\ \E jitter \in Jitters :
                  Becomes(c, IF call[c].pc = "awaitA"
                             THEN AttemptFailed(Here(c), error, jitter)
                             ELSE DirectAttemptFailed(Here(c)))

\* line 980: the backoff sleep ends and the loop continues
BackoffDone(c) ==
  /\ call[c].pc = "backoff"
  /\ Unsettled(c)
  /\ Becomes(c, NextIteration(Here(c)))

\* line 1767: _makeAlternativeRequest settles
TransportBReturns(c) ==
  /\ call[c].pc = "awaitB"
  /\ LET key == call[c].keysToTry[call[c].kpos]
     IN \/ /\ Settled(c, "B", key, NoError)
           /\ Becomes(c, AlternativeSucceeded(Here(c)))
        \/ \E error \in BErrors :
             /\ Settled(c, "B", key, error)
             /\ \E jitter \in Jitters :
                  Becomes(c, AlternativeFailed(Here(c), error, jitter))

\* line 1830: the backoff sleep of executeAlternativeRequest ends
AltBackoffDone(c) ==
  /\ call[c].pc = "altBackoff"
  /\ Unsettled(c)
  /\ Becomes(c, Cfg(ThePool, errorCount,
                    [call[c] EXCEPT !.pc = "awaitB", !.delay = 0, !.altAttempt = @ + 1,
                                    !.sent = Counted(@)]))

\* the caller receives the value or the exception of the call
Deliver(c) ==
  /\ call[c].pc = "done"
  /\ call' = [call EXCEPT ![c] = IdleCall]
  /\ Unsettled(c)
  /\ UNCHANGED <<numModels, isInitialized, currentKeyIndex, exhaustedKeys, requestCount,
                 errorCount, fallbackEnabled, enableFallbackMethod, maxActive, probe>>

CallStep(c) ==
  \/ PreflightDone(c)
  \/ TransportAReturns(c)
  \/ BackoffDone(c)
  \/ TransportBReturns(c)
  \/ AltBackoffDone(c)
  \/ Deliver(c)

Next ==
  \E c \in Slots :
    \/ StartCall(c)
    \/ PreflightDone(c)
    \/ TransportAReturns(c)
    \/ BackoffDone(c)
    \/ TransportBReturns(c)
    \/ AltBackoffDone(c)
    \/ Deliver(c)

Spec == Init /\ [][Next]_vars

\* every await settles: each transport attempt and each sleep completes
FairSpec == Spec /\ \A c \in Slots : WF_vars(CallStep(c))

\* ------------------------------------------------- texts and RegExp
\* A text is a sequence of characters (strings of length one).
\* Strict(v, F) is F(v) with v evaluated once, before F is applied.
Strict(v, F(_)) == CHOOSE r \in {F(x) : x \in {v}} : TRUE

Least(numbers) == CHOOSE x \in numbers : \A y \in numbers : x <= y

Greatest(numbers) == CHOOSE x \in numbers : \A y \in numbers : x >= y

Whitespace == {" ", "\n", "\t"}

Digits == {"0", "1", "2", "3", "4", "5", "6", "7", "8", "9"}

LowerAlphabet ==
  <<"a", "b", "c", "d", "e", "f", "g", "h", "i", "j", "k", "l", "m",
    "n", "o", "p", "q", "r", "s", "t", "u", "v", "w", "x", "y", "z">>

UpperAlphabet ==
  <<"A", "B", "C", "D", "E", "F", "G", "H", "I", "J", "K", "L", "M",
    "N", "O", "P", "Q", "R", "S", "T", "U", "V", "W", "X", "Y", "Z">>

LowerLetters == {LowerAlphabet[k] : k \in 1..Len(LowerAlphabet)}

UpperLetters == {UpperAlphabet[k] : k \in 1..Len(UpperAlphabet)}

WordChars == LowerLetters \cup UpperLetters \cup Digits \cup {"_"}

CharToLowerCase(ch) ==
  IF ch \in UpperLetters
  THEN LowerAlphabet[CHOOSE k \in 1..Len(UpperAlphabet) : UpperAlphabet[k] = ch]
  ELSE ch

CharToUpperCase(ch) ==
  IF ch \in LowerLetters
  THEN UpperAlphabet[CHOOSE k \in 1..Len(LowerAlphabet) : LowerAlphabet[k] = ch]
  ELSE ch

TextToLowerCase(text) == [k \in 1..Len(text) |-> CharToLowerCase(text[k])]

TextToUpperCase(text) == [k \in 1..Len(text) |-> CharToUpperCase(text[k])]

\* text.substring(from - 1, to - 1): the characters from..to-1
Substring(text, from, to) == SubSeq(text, from, to - 1)

\* text.trim()
TrimmedSpan(text) ==
  LET kept == {p \in 1..Len(text) : text[p] \notin Whitespace}
  IN IF kept = {} THEN <<>> ELSE SubSeq(text, Least(kept), Greatest(kept))

Trim(text) == Strict(text, LAMBDA t : TrimmedSpan(t))

\* text.indexOf(word) + 1; 0 when absent
FirstIndexOf(text, word) ==
  LET found == {p \in 1..(Len(text) - Len(word) + 1) : SubSeq(text, p, p + Len(word) - 1) = word}
  IN IF found = {} THEN 0 ELSE Least(found)

IndexOf(text, word) == Strict(<<text, word>>, LAMBDA a : FirstIndexOf(a[1], a[2]))

TextIncludes(text, word) == IndexOf(text, word) > 0

\* A RegExp is a sequence of nodes, matched by backtracking in the order
\* ECMAScript prescribes.  Unbounded stands for the missing upper limit of
\* * and +.
Unbounded == 100000

\* the characters a class holds under the i flag
Fold(chars) ==
  chars \cup {CharToLowerCase(ch) : ch \in chars} \cup {CharToUpperCase(ch) : ch \in chars}

In(chars) == [t |-> "in", s |-> chars]

NotIn(chars) == [t |-> "notin", s |-> chars]

\* the literal word, and the literal word under the i flag
Lit(word) == [k \in 1..Len(word) |-> In({word[k]})]

LitI(word) == [k \in 1..Len(word) |-> In(Fold({word[k]}))]

\* a | b | ... : each alternative is a RegExp
Alt(alternatives) == [t |-> "alt", a |-> alternatives]

\* x{min,max} and x{min,max}?
Rep(x, min, max) == [t |-> "rep", x |-> x, min |-> min, max |-> max, lazy |-> FALSE]

Lazy(x, min, max) == [t |-> "rep", x |-> x, min |-> min, max |-> max, lazy |-> TRUE]

\* the capturing group number k
Grp(k, x) == [t |-> "grp", k |-> k, x |-> x]

Mark(k, side) == [t |-> "mark", k |-> k, side |-> side]

\* (?=x)
Ahead(x) == [t |-> "ahead", x |-> x]

\* ^ and $, with the m flag or without, and \b
Bol(multiline) == [t |-> "bol", m |-> multiline]

Eol(multiline) == [t |-> "eol", m |-> multiline]

WordBoundary == [t |-> "wb"]

NoCaptures == <<<<0, 0>>, <<0, 0>>>>

NoMatch == [ok |-> FALSE, start |-> 0, end |-> 0, caps |-> NoCaptures]

IsWordChar(text, i) == i >= 1 /\ i <= Len(text) /\ text[i] \in WordChars

Accepts(class, ch) == IF class.t = "in" THEN ch \in class.s ELSE ch \notin class.s

\* how many characters from i on, max at most, the class accepts in a row
RunLength(class, text, i, max) ==
  LET limit == IF max < Len(text) - i + 1 THEN max ELSE Len(text) - i + 1
      rejected == {p \in i..(i + limit - 1) : ~Accepts(class, text[p])}
  IN IF rejected = {} THEN limit ELSE Least(rejected) - i

RECURSIVE Match(_, _, _, _), MatchHere(_, _, _, _)
\* the first way, in backtracking order, in which nodes match text from i
Match(nodes, text, i, caps) ==
  Strict(<<nodes, text, i, caps>>, LAMBDA a : MatchHere(a[1], a[2], a[3], a[4]))

MatchHere(nodes, text, i, caps) ==
  IF Len(nodes) = 0 THEN [ok |-> TRUE, start |-> 0, end |-> i, caps |-> caps]
  ELSE
    LET n == Head(nodes)
        rest == Tail(nodes)
    IN CASE n.t = "in" ->
              IF i <= Len(text) /\ text[i] \in n.s
              THEN Match(rest, text, i + 1, caps) ELSE NoMatch
         [] n.t = "notin" ->
              IF i <= Len(text) /\ text[i] \notin n.s
              THEN Match(rest, text, i + 1, caps) ELSE NoMatch
         [] n.t = "alt" ->
              IF Len(n.a) = 0 THEN NoMatch
              ELSE Strict(Match(Head(n.a) \o rest, text, i, caps),
                          LAMBDA first :
                            IF first.ok THEN first
                            ELSE Match(<<Alt(Tail(n.a))>> \o rest, text, i, caps))
         [] n.t = "rep" ->
              IF Len(n.x) = 1 /\ n.x[1].t \in {"in", "notin"}
              THEN \* a repeated class: the counts after which the rest matches
                   Strict({<<k, Match(rest, text, i + k, caps)>> :
                             k \in n.min..RunLength(n.x[1], text, i, n.max)},
                          LAMBDA tried :
                            LET counts == {p[1] : p \in {q \in tried : q[2].ok}}
                                count == IF n.lazy THEN Least(counts) ELSE Greatest(counts)
                            IN IF counts = {} THEN NoMatch
                               ELSE (CHOOSE p \in tried : p[1] = count)[2])
              ELSE LET again == [n EXCEPT !.min = IF @ > 0 THEN @ - 1 ELSE 0, !.max = @ - 1]
                       more == IF n.max > 0
                               THEN Match(n.x \o <<again>> \o rest, text, i, caps)
                               ELSE NoMatch
                       stop == IF n.min <= 0 THEN Match(rest, text, i, caps) ELSE NoMatch
                   IN IF n.lazy
                      THEN Strict(stop, LAMBDA stopped : IF stopped.ok THEN stopped ELSE more)
                      ELSE Strict(more, LAMBDA longer : IF longer.ok THEN longer ELSE stop)
         [] n.t = "grp" ->
              Match(<<Mark(n.k, 1)>> \o n.x \o <<Mark(n.k, 2)>> \o rest, text, i, caps)
         [] n.t = "mark" ->
              Match(rest, text, i, [caps EXCEPT ![n.k][n.side] = i])
         [] n.t = "ahead" ->
              IF Match(n.x, text, i, caps).ok THEN Match(rest, text, i, caps) ELSE NoMatch
         [] n.t = "bol" ->
              IF i = 1 \/ (n.m /\ text[i - 1] = "\n")
              THEN Match(rest, text, i, caps) ELSE NoMatch
         [] n.t = "eol" ->
              IF i = Len(text) + 1 \/ (n.m /\ text[i] = "\n")
              THEN Match(rest, text, i, caps) ELSE NoMatch
         [] n.t = "wb" ->
              IF IsWordChar(text, i - 1) # IsWordChar(text, i)
              THEN Match(rest, text, i, caps) ELSE NoMatch

\* the leftmost position from from on at which regexp matches text
Leftmost(regexp, text, from) ==
  Strict({<<p, Match(regexp, text, p, NoCaptures)>> : p \in from..(Len(text) + 1)},
         LAMBDA tried :
           LET starts == {p[1] : p \in {q \in tried : q[2].ok}}
           IN IF starts = {} THEN NoMatch
              ELSE [(CHOOSE p \in tried : p[1] = Least(starts))[2]
                      EXCEPT !.start = Least(starts)])

\* RegExp.prototype.exec with lastIndex = from - 1
Exec(regexp, text, from) ==
  Strict(<<regexp, text, from>>, LAMBDA a : Leftmost(a[1], a[2], a[3]))

\* RegExp.prototype.test on a fresh RegExp
Test(regexp, text) == Exec(regexp, text, 1).ok

RECURSIVE MatchesFrom(_, _, _)
MatchesFrom(regexp, text, from) ==
  Strict(Leftmost(regexp, text, from),
         LAMBDA m :
           IF ~m.ok THEN <<>>
           ELSE <<m>> \o MatchesFrom(regexp, text,
                                      IF m.end = m.start THEN m.end + 1 ELSE m.end))

\* the successive matches of a RegExp with the g flag
MatchAll(regexp, text, from) ==
  Strict(<<regexp, text, from>>, LAMBDA a : MatchesFrom(a[1], a[2], a[3]))

\* match[0] and match[k]
Matched(text, m) == Substring(text, m.start, m.end)

Group(text, m, k) == Substring(text, m.caps[k][1], m.caps[k][2])

RECURSIVE ReplaceMatches(_, _, _, _, _)
\* text with the matches ms[k..] replaced; replacement "$1" stands for group 1
ReplaceMatches(text, ms, k, from, replacement) ==
  IF k > Len(ms) THEN Substring(text, from, Len(text) + 1)
  ELSE Substring(text, from, ms[k].start)
       \o (IF replacement = <<"$", "1">> THEN Group(text, ms[k], 1) ELSE replacement)
       \o ReplaceMatches(text, ms, k + 1, ms[k].end, replacement)

\* text.replace(regexp, replacement) with and without the g flag
ReplaceAll(regexp, text, replacement) ==
  Strict(<<text, replacement>>,
         LAMBDA a : Strict(MatchAll(regexp, a[1], 1),
                           LAMBDA ms : ReplaceMatches(a[1], ms, 1, 1, a[2])))

ReplaceFirst(regexp, text, replacement) ==
  Strict(<<text, replacement>>,
         LAMBDA a : Strict(Exec(regexp, a[1], 1),
                           LAMBDA m : IF m.ok THEN ReplaceMatches(a[1], <<m>>, 1, 1, a[2])
                                      ELSE a[1]))

\* --------------------------------------------- extractMcqAnswer
\* U+2022 and U+0060, written out since a string cannot hold them
Bullet == "u2022"

Backquote == "u0060"

\* sequence-level forms of the RegExp nodes
Star(x) == <<Rep(x, 0, Unbounded)>>

Plus(x) == <<Rep(x, 1, Unbounded)>>

Opt(x) == <<Rep(x, 0, 1)>>

Or(alternatives) == <<Alt(alternatives)>>

Capture(k, x) == <<Grp(k, x)>>

Before(x) == <<Ahead(x)>>

\* \s, \w, \d, [^] and . as one-node RegExps
Space == <<In(Whitespace)>>

WordChar == <<In(WordChars)>>

Digit == <<In(Digits)>>

AnyChar == <<NotIn({})>>

Dot == <<NotIn({"\n", "\r"})>>

\* [a-eA-E], [A-E], [\).]
AtoE == <<In({"a", "b", "c", "d", "e", "A", "B", "C", "D", "E"})>>

UpperAtoE == <<In({"A", "B", "C", "D", "E"})>>

ParenOrDot == <<In({")", "."})>>

Letters == LowerLetters \cup UpperLetters

codingProblemIndicators ==
  << LitI(<<"c", "l", "a", "s", "s">>) \o Plus(Space) \o Plus(WordChar) \o Star(Space) \o Lit(<<"{">>),
     Or(<<LitI(<<"d", "e", "f">>), LitI(<<"f", "u", "n", "c", "t", "i", "o", "n">>), LitI(<<"p", "u", "b", "l", "i", "c">>), LitI(<<"p", "r", "i", "v", "a", "t", "e">>),
          LitI(<<"p", "r", "o", "t", "e", "c", "t", "e", "d">>)>>) \o Plus(Space) \o Plus(WordChar) \o Star(Space) \o Lit(<<"(">>),
     Or(<<LitI(<<"l", "e", "e", "t", "c", "o", "d", "e">>), LitI(<<"h", "a", "c", "k", "e", "r", "r", "a", "n", "k">>), LitI(<<"c", "o", "d", "e", "f", "o", "r", "c", "e", "s">>), LitI(<<"a", "t", "c", "o", "d", "e", "r">>)>>),
     Or(<<Plus(Digit) \o Lit(<<".">>) \o Plus(Space) \o Plus(WordChar) \o Star(Dot) \o LitI(<<"r", "e", "c", "t", "a", "n", "g", "l", "e">>),
          LitI(<<"a", "r", "r", "a", "y">>), LitI(<<"t", "r", "e", "e">>), LitI(<<"g", "r", "a", "p", "h">>), LitI(<<"s", "t", "r", "i", "n", "g">>)>>),
     Or(<<LitI(<<"s", "o", "l", "u", "t", "i", "o", "n">>), LitI(<<"i", "m", "p", "l", "e", "m", "e", "n", "t">>), LitI(<<"a", "l", "g", "o", "r", "i", "t", "h", "m">>),
          LitI(<<"c", "o", "d", "e">>) \o Plus(Space) \o LitI(<<"t", "o">>)>>),
     LitI(<<"r", "e", "t", "u", "r", "n">>) \o Plus(Space) \o Or(<<LitI(<<"t", "r", "u", "e">>), LitI(<<"f", "a", "l", "s", "e">>), Plus(WordChar)>>),
     Or(<<LitI(<<"#", "i", "n", "c", "l", "u", "d", "e">>), LitI(<<"u", "s", "i", "n", "g">>) \o Plus(Space) \o LitI(<<"n", "a", "m", "e", "s", "p", "a", "c", "e">>),
          LitI(<<"i", "m", "p", "o", "r", "t">>) \o Plus(Space)>>),
     Or(<<LitI(<<"v", "e", "c", "t", "o", "r">>), LitI(<<"l", "i", "s", "t">>), LitI(<<"m", "a", "p">>), LitI(<<"s", "e", "t">>), LitI(<<"q", "u", "e", "u", "e">>),
          LitI(<<"s", "t", "a", "c", "k">>)>>),
     Or(<<LitI(<<"i", "n", "t">>) \o Plus(Space) \o Plus(WordChar) \o Star(Space) \o Lit(<<"(">>),
          LitI(<<"v", "o", "i", "d">>) \o Plus(Space) \o Plus(WordChar) \o Star(Space) \o Lit(<<"(">>),
          LitI(<<"b", "o", "o", "l">>) \o Plus(Space) \o Plus(WordChar) \o Star(Space) \o Lit(<<"(">>)>>) >>

isLikelyCodingProblem(originalText) ==
  \E k \in 1..Len(codingProblemIndicators) : Test(codingProblemIndicators[k], originalText)

\* three backquotes, [\s\S]*?, three backquotes
CodeBlock == Lit(<<Backquote, Backquote, Backquote>>) \o <<Lazy(AnyChar, 0, Unbounded)>> \o Lit(<<Backquote, Backquote, Backquote>>)

hasCodeBlocks(response) == Test(CodeBlock, response)

codingSkills == {"dsa", "programming", "devops", "data-science", "system-design"}

isCodingSkill(activeSkill) == activeSkill \in codingSkills

mcqPatterns ==
  << Or(<<LitI(<<"w", "h", "i", "c", "h">>), LitI(<<"w", "h", "a", "t">>), LitI(<<"c", "h", "o", "o", "s", "e">>), LitI(<<"s", "e", "l", "e", "c", "t">>), LitI(<<"p", "i", "c", "k">>)>>)
       \o <<Lazy(Dot, 0, Unbounded)>>
       \o Or(<<LitI(<<"o", "p", "t", "i", "o", "n">>), LitI(<<"a", "n", "s", "w", "e", "r">>), LitI(<<"c", "h", "o", "i", "c", "e">>), LitI(<<"l", "e", "t", "t", "e", "r">>)>>)
       \o <<Lazy(AnyChar, 0, 200)>> \o AtoE \o ParenOrDot,
     Or(<<LitI(<<"o", "p", "t", "i", "o", "n">>), LitI(<<"a", "n", "s", "w", "e", "r">>), LitI(<<"c", "h", "o", "i", "c", "e">>)>>) \o Star(Space) \o AtoE \o ParenOrDot,
     AtoE \o ParenOrDot \o Plus(Space) \o <<In(Letters)>> \o Plus(<<In(Letters)>>),
     <<Bol(TRUE)>> \o Star(Space) \o AtoE \o ParenOrDot \o Plus(Space) \o <<In(UpperLetters)>> >>

mcqMatches(originalText) ==
  {k \in 1..Len(mcqPatterns) : Test(mcqPatterns[k], originalText)}

isMcq(originalText) == Cardinality(mcqMatches(originalText)) >= 2

\* a backquote, ([^backquote]+), a backquote, with the g flag
InlineCode == Lit(<<Backquote>>) \o Capture(1, Plus(<<NotIn({Backquote})>>)) \o Lit(<<Backquote>>)

\* the callback of the first replace: the block without its fences
CodeBlockContent(match) ==
  Trim(ReplaceAll(Lit(<<Backquote, Backquote, Backquote>>),
                  ReplaceAll(Lit(<<Backquote, Backquote, Backquote>>) \o Star(WordChar) \o Opt(Lit(<<"\n">>)), match, <<>>),
                  <<>>))

RECURSIVE UnfenceMatches(_, _, _, _)
UnfenceMatches(text, ms, k, from) ==
  IF k > Len(ms) THEN Substring(text, from, Len(text) + 1)
  ELSE Substring(text, from, ms[k].start)
       \o CodeBlockContent(Matched(text, ms[k]))
       \o UnfenceMatches(text, ms, k + 1, ms[k].end)

cleanResponse(response) ==
  Strict(MatchAll(CodeBlock, response, 1),
         LAMBDA ms : Trim(ReplaceAll(InlineCode, UnfenceMatches(response, ms, 1, 1), <<"$", "1">>)))

answerPatterns ==
  << Or(<<LitI(<<"a", "n", "s", "w", "e", "r">>), LitI(<<"c", "o", "r", "r", "e", "c", "t">>), LitI(<<"r", "i", "g", "h", "t">>), LitI(<<"s", "o", "l", "u", "t", "i", "o", "n">>)>>)
       \o Star(<<In(Whitespace \cup {":"})>>) \o Capture(1, AtoE),
     Or(<<LitI(<<"o", "p", "t", "i", "o", "n">>), LitI(<<"c", "h", "o", "i", "c", "e">>)>>) \o Star(Space) \o Capture(1, AtoE) \o Star(Space)
       \o Or(<<LitI(<<"i", "s">>), LitI(<<"a", "r", "e">>), LitI(<<"w", "a", "s">>), LitI(<<"w", "e", "r", "e">>), LitI(<<"c", "o", "r", "r", "e", "c", "t">>),
               LitI(<<"r", "i", "g", "h", "t">>), LitI(<<"a", "n", "s", "w", "e", "r">>)>>),
     <<Bol(TRUE)>> \o Capture(1, AtoE) \o ParenOrDot \o Star(Space)
       \o Or(<<LitI(<<"i", "s">>), LitI(<<"t", "h", "e">>), LitI(<<"c", "o", "r", "r", "e", "c", "t">>), LitI(<<"a", "n", "s", "w", "e", "r">>)>>),
     Or(<<LitI(<<"s", "e", "l", "e", "c", "t">>), LitI(<<"c", "h", "o", "o", "s", "e">>), LitI(<<"p", "i", "c", "k">>)>>) \o Star(Space) \o Capture(1, AtoE),
     LitI(<<"a", "n", "s", "w", "e", "r">>) \o Star(Space) \o Lit(<<":">>) \o Star(Space) \o Capture(1, AtoE),
     <<WordBoundary>> \o Capture(1, AtoE) \o <<WordBoundary>> >>

NoLetter == ""

RECURSIVE LetterOfMatches(_, _, _)
\* the inner loop: match.match(/([a-eA-E])/i) on each matched text in turn
LetterOfMatches(text, ms, k) ==
  IF k > Len(ms) THEN NoLetter
  ELSE Strict(Matched(text, ms[k]),
              LAMBDA matched :
                Strict(Exec(Capture(1, AtoE), matched, 1),
                       LAMBDA letterMatch :
                         IF letterMatch.ok
                         THEN CharToUpperCase(Group(matched, letterMatch, 1)[1])
                         ELSE LetterOfMatches(text, ms, k + 1)))

RECURSIVE LetterOfPatterns(_, _)
\* the outer loop over answerPatterns from pattern k on
LetterOfPatterns(clean, k) ==
  IF k > Len(answerPatterns) THEN NoLetter
  ELSE Strict(Strict(MatchAll(answerPatterns[k], clean, 1),
                     LAMBDA ms : LetterOfMatches(clean, ms, 1)),
              LAMBDA letter :
                IF letter # NoLetter THEN letter ELSE LetterOfPatterns(clean, k + 1))

extractedAnswer(response) ==
  Strict(cleanResponse(response), LAMBDA clean : LetterOfPatterns(clean, 1))

\* [Xx] for the extracted letter X
TheLetter(letter) == <<In({letter, CharToLowerCase(letter)})>>

\* [A-E] under the i flag
FoldedAtoE == <<In(Fold({"A", "B", "C", "D", "E"}))>>

\* (?=\s*(?:[A-E][\).]|$|\n\s*[A-E][\).]|\n\s*[A-E]\s|\n)) under the flags im
UntilNextOption ==
  Before(Star(Space) \o Or(<<FoldedAtoE \o ParenOrDot,
                         <<Eol(TRUE)>>,
                         Lit(<<"\n">>) \o Star(Space) \o FoldedAtoE \o ParenOrDot,
                         Lit(<<"\n">>) \o Star(Space) \o FoldedAtoE \o Space,
                         Lit(<<"\n">>)>>))

\* (?:^|[\s\n]) under the m flag
LineStartOrSpace == Or(<<<<Bol(TRUE)>>, Space>>)

\* the eight patterns with their flags; String.prototype.matchAll throws a
\* TypeError on a RegExp without the g flag
optionPatterns(letter) ==
  << [flags |-> {"i", "m"},
      regexp |-> LineStartOrSpace \o Capture(1, TheLetter(letter)) \o ParenOrDot \o Plus(Space)
                 \o Capture(2, <<Lazy(<<NotIn({"\n"})>>, 1, 500)>>) \o UntilNextOption],
     [flags |-> {"i", "m"},
      regexp |-> LineStartOrSpace \o Capture(1, TheLetter(letter)) \o ParenOrDot \o Plus(Space)
                 \o Capture(2, <<Lazy(<<NotIn({"\n"})>>, 1, Unbounded)>>)
                 \o Before(Star(Space) \o Or(<<FoldedAtoE \o ParenOrDot, <<Eol(TRUE)>>,
                                           Lit(<<"\n">>)>>))],
     [flags |-> {"i", "m"},
      regexp |-> LineStartOrSpace \o Capture(1, TheLetter(letter)) \o Plus(Space)
                 \o Capture(2, <<Lazy(<<NotIn({"\n"})>>, 1, 500)>>) \o UntilNextOption],
     [flags |-> {"i", "m"},
      regexp |-> LineStartOrSpace \o Capture(1, TheLetter(letter)) \o ParenOrDot \o Plus(Space)
                 \o Capture(2, <<Lazy(AnyChar, 1, 800)>>) \o UntilNextOption],
     [flags |-> {"i"},
      regexp |-> Capture(1, TheLetter(letter)) \o ParenOrDot \o Star(Space)
                 \o Capture(2, <<Lazy(<<NotIn({letter, CharToLowerCase(letter)})>>, 1, 600)>>)
                 \o Before(Or(<<Star(Space) \o FoldedAtoE \o ParenOrDot,
                                Star(Space) \o FoldedAtoE \o Space,
                                <<Eol(FALSE)>>>>))],
     [flags |-> {"i", "m"},
      regexp |-> Or(<<<<Bol(TRUE)>>, Lit(<<"\n">>)>>) \o Star(Space)
                 \o Capture(1, TheLetter(letter)) \o ParenOrDot \o Plus(Space)
                 \o Capture(2, <<Lazy(AnyChar, 1, 800)>>)
                 \o Before(Star(Space) \o Or(<<Lit(<<"\n">>) \o Star(Space) \o FoldedAtoE \o ParenOrDot,
                                           Lit(<<"\n">>) \o Star(Space) \o FoldedAtoE \o Space,
                                           <<Eol(TRUE)>>, Lit(<<"\n">>)>>))],
     [flags |-> {"i"},
      regexp |-> <<WordBoundary>> \o Capture(1, TheLetter(letter)) \o Opt(ParenOrDot) \o Plus(Space)
                 \o Capture(2, <<Lazy(AnyChar, 0, Unbounded)>>)
                 \o Before(Star(Space) \o Or(<<FoldedAtoE \o ParenOrDot,
                                           Plus(Space) \o FoldedAtoE \o Space,
                                           <<Eol(FALSE)>>>>))],
     [flags |-> {"g", "i"},
      regexp |-> Capture(1, TheLetter(letter)) \o ParenOrDot \o Plus(Space)
                 \o Capture(2, <<Rep(<<NotIn({"\n"})>>, 1, 200)>>)] >>

\* the matches text.matchAll(pattern) iterates; none when it throws
matchAll(pattern, text) ==
  IF "g" \in pattern.flags
  THEN MatchAll(pattern.regexp, text, 1)
  ELSE <<>>

\* /^\s*[\u2022\-\*]\s*/
LeadingBullet == <<Bol(FALSE)>> \o Star(Space) \o <<In({Bullet, "-", "*"})>> \o Star(Space)

\* /\n\s*\n+/g
BlankLines == Lit(<<"\n">>) \o Star(Space) \o Plus(Lit(<<"\n">>))

\* /[\.;,\s]+$/
TrailingPunctuation == Plus(<<In({".", ";", ","} \cup Whitespace)>>) \o <<Eol(FALSE)>>

stopPatterns ==
  << <<Bol(FALSE)>> \o Capture(1, <<Lazy(AnyChar, 0, Unbounded)>>)
       \o Before(Plus(Space) \o UpperAtoE \o ParenOrDot),
     <<Bol(FALSE)>> \o Capture(1, <<Lazy(AnyChar, 0, Unbounded)>>)
       \o Before(Lit(<<"\n">>) \o Star(Space) \o UpperAtoE \o ParenOrDot),
     <<Bol(FALSE)>> \o Capture(1, <<Lazy(AnyChar, 0, Unbounded)>>)
       \o Before(Plus(Space) \o UpperAtoE \o Space) >>

RECURSIVE StopAt(_, _)
\* the loop over stopPatterns from pattern k on
StopAt(text, k) ==
  IF k > Len(stopPatterns) THEN text
  ELSE Strict(Exec(stopPatterns[k], text, 1),
              LAMBDA stopMatch :
                Strict(Trim(Group(text, stopMatch, 1)),
                       LAMBDA candidate :
                         IF /\ stopMatch.ok
                            /\ Len(Group(text, stopMatch, 1)) > 0
                            /\ Len(candidate) > 0
                         THEN StopAt(candidate, k + 1)
                         ELSE StopAt(text, k + 1)))

\* the option text one match yields
CleanOption(text) ==
  Strict(Trim(ReplaceAll(BlankLines, ReplaceFirst(LeadingBullet, text, <<>>), <<" ">>)),
         LAMBDA cleaned : Trim(ReplaceFirst(TrailingPunctuation, StopAt(cleaned, 1), <<>>)))

NoBest == [bestMatch |-> <<>>, bestLength |-> 0, bestPatternIndex |-> -1]

isBetterMatch(text, i, best) ==
  \/ Len(text) > best.bestLength
  \/ (10 * Len(text) >= 7 * best.bestLength /\ i < best.bestPatternIndex)
  \/ (best.bestLength = 0 /\ Len(text) > 0)

RECURSIVE BestOfMatches(_, _, _, _, _)
\* the body of the loop over the matches of pattern number i (from 0)
BestOfMatches(originalText, ms, k, i, best) ==
  IF k > Len(ms) THEN best
  ELSE Strict(Trim(Group(originalText, ms[k], 2)),
              LAMBDA raw :
                IF Len(Group(originalText, ms[k], 2)) = 0 \/ Len(raw) < 1
                THEN BestOfMatches(originalText, ms, k + 1, i, best)
                ELSE Strict(CleanOption(raw),
                            LAMBDA text :
                              IF isBetterMatch(text, i, best)
                              THEN BestOfMatches(originalText, ms, k + 1, i,
                                     [bestMatch |-> text, bestLength |-> Len(text),
                                      bestPatternIndex |-> i])
                              ELSE BestOfMatches(originalText, ms, k + 1, i, best)))

RECURSIVE BestOfPatterns(_, _, _, _)
\* the loop over the patterns from pattern k on
BestOfPatterns(originalText, patterns, k, best) ==
  IF k > Len(patterns) THEN best
  ELSE Strict(matchAll(patterns[k], originalText),
              LAMBDA ms :
                Strict(BestOfMatches(originalText, ms, 1, k - 1, best),
                       LAMBDA better : BestOfPatterns(originalText, patterns, k + 1, better)))

optionText(originalText, letter) ==
  Strict(optionPatterns(letter),
         LAMBDA patterns : BestOfPatterns(originalText, patterns, 1, NoBest).bestMatch)

\* /[=+\-*\/<>()\[\]{};]/
hasCodeSyntax(text) ==
  Test(<<In({"=", "+", "-", "*", "/", "<", ">", "(", ")", "[", "]", "{", "}", ";"})>>, text)

formattedResponse(letter, text) ==
  IF hasCodeSyntax(text)
  THEN <<"#", "#", " ", "A", "n", "s", "w", "e", "r", ":", " ">> \o <<letter>> \o <<"\n", "\n", Backquote, Backquote, Backquote, "\n">> \o text \o <<"\n", Backquote, Backquote, Backquote, "\n", "\n">>
  ELSE <<"#", "#", " ", "A", "n", "s", "w", "e", "r", ":", " ">> \o <<letter>> \o <<"\n", "\n", "*", "*">> \o text \o <<"*", "*", "\n", "\n">>

\* /answer\s*:\s*[a-eA-E]/gi
AnswerColonLetter == LitI(<<"a", "n", "s", "w", "e", "r">>) \o Star(Space) \o Lit(<<":">>) \o Star(Space) \o AtoE

cleanResponseNoAnswer(response) ==
  LET clean == Trim(ReplaceAll(InlineCode, ReplaceAll(CodeBlock, response, <<>>), <<"$", "1">>))
  IN Trim(ReplaceAll(AnswerColonLetter, clean, <<>>))

hasExplanation(rest) ==
  \/ Len(rest) > 15
  \/ TextIncludes(TextToLowerCase(rest), <<"b", "e", "c", "a", "u", "s", "e">>)
  \/ TextIncludes(TextToLowerCase(rest), <<"r", "e", "a", "s", "o", "n">>)
  \/ TextIncludes(TextToLowerCase(rest), <<"e", "x", "p", "l", "a", "n", "a", "t", "i", "o", "n">>)

WithExplanation(response, letter, text) ==
  Strict(cleanResponseNoAnswer(response),
         LAMBDA rest :
           LET shown == SubSeq(TextToLowerCase(text), 1, IF Len(text) < 20 THEN Len(text) ELSE 20)
           IN IF hasExplanation(rest) /\ ~TextIncludes(TextToLowerCase(rest), shown)
              THEN formattedResponse(letter, text) \o <<"-", "-", "-", "\n", "\n", "*", "E", "x", "p", "l", "a", "n", "a", "t", "i", "o", "n", ":", "*", "\n">> \o rest
              ELSE formattedResponse(letter, text))

\* (?=\s*(?:[A-E][\).]|$|\n)) under the flags gi
UntilOptionOrEnd ==
  Before(Star(Space) \o Or(<<FoldedAtoE \o ParenOrDot, <<Eol(FALSE)>>, Lit(<<"\n">>)>>))

lastResortPatterns(letter) ==
  << [flags |-> {"g", "i"},
      regexp |-> Capture(1, TheLetter(letter)) \o ParenOrDot \o Star(Space)
                 \o Capture(2, <<Lazy(<<NotIn({"\n"})>>, 1, 200)>>) \o UntilOptionOrEnd],
     [flags |-> {"i"},
      regexp |-> Capture(1, TheLetter(letter)) \o ParenOrDot \o Star(Space)
                 \o Capture(2, <<Lazy(AnyChar, 1, 300)>>)
                 \o Before(Star(Space) \o Or(<<FoldedAtoE \o ParenOrDot, <<Eol(FALSE)>>>>))],
     [flags |-> {"g", "i"},
      regexp |-> <<WordBoundary>> \o Capture(1, TheLetter(letter)) \o Plus(Space)
                 \o Capture(2, <<Lazy(<<NotIn({"\n"})>>, 1, 200)>>) \o UntilOptionOrEnd],
     [flags |-> {"i"},
      regexp |-> Capture(1, TheLetter(letter)) \o Opt(ParenOrDot) \o Plus(Space)
                 \o Capture(2, <<Lazy(AnyChar, 0, Unbounded)>>)
                 \o Before(Star(Space) \o Or(<<FoldedAtoE \o ParenOrDot,
                                           Plus(Space) \o FoldedAtoE \o Space,
                                           <<Eol(FALSE)>>>>))],
     [flags |-> {"g", "i", "m"},
      regexp |-> Or(<<<<Bol(TRUE)>>, Lit(<<"\n">>)>>) \o Star(Space)
                 \o Capture(1, TheLetter(letter)) \o ParenOrDot \o Plus(Space)
                 \o Capture(2, <<Rep(<<NotIn({"\n"})>>, 1, 200)>>)] >>

\* /^([^]*?)(?=\s+[A-E][\)\.]|$)/
stopAtNextOption ==
  <<Bol(FALSE)>> \o Capture(1, <<Lazy(AnyChar, 0, Unbounded)>>)
    \o Before(Or(<<Plus(Space) \o UpperAtoE \o ParenOrDot, <<Eol(FALSE)>>>>))

\* the text one match of a last resort pattern yields
LastResortText(raw) ==
  Strict(Trim(ReplaceAll(Plus(Lit(<<"\n">>)),
                ReplaceAll(Plus(Space), ReplaceFirst(LeadingBullet, Trim(raw), <<>>), <<" ">>),
                <<" ">>)),
         LAMBDA cleaned :
           Strict(Exec(stopAtNextOption, cleaned, 1),
                  LAMBDA stop :
                    Trim(ReplaceFirst(TrailingPunctuation,
                           IF stop.ok /\ Len(Group(cleaned, stop, 1)) > 0
                           THEN Trim(Group(cleaned, stop, 1))
                           ELSE cleaned,
                           <<>>))))

RECURSIVE LastResortOfMatches(_, _, _)
\* the first non-empty text among the matches ms[k..]; <<>> when none
LastResortOfMatches(originalText, ms, k) ==
  IF k > Len(ms) THEN <<>>
  ELSE IF \/ Len(Group(originalText, ms[k], 2)) = 0
          \/ Len(Trim(Group(originalText, ms[k], 2))) < 1
  THEN LastResortOfMatches(originalText, ms, k + 1)
  ELSE Strict(LastResortText(Group(originalText, ms[k], 2)),
              LAMBDA extracted :
                IF Len(extracted) > 0 THEN extracted
                ELSE LastResortOfMatches(originalText, ms, k + 1))

RECURSIVE LastResortOfPatterns(_, _, _)
\* the loop over the patterns from pattern k on
LastResortOfPatterns(originalText, patterns, k) ==
  IF k > Len(patterns) THEN <<>>
  ELSE Strict(Strict(matchAll(patterns[k], originalText),
                     LAMBDA ms : LastResortOfMatches(originalText, ms, 1)),
              LAMBDA extracted :
                IF Len(extracted) > 0 THEN extracted
                ELSE LastResortOfPatterns(originalText, patterns, k + 1))

lastResortText(originalText, letter) ==
  Strict(lastResortPatterns(letter),
         LAMBDA patterns : LastResortOfPatterns(originalText, patterns, 1))

extractMcqAnswer(response, originalText, activeSkill) ==
  IF Len(originalText) = 0 \/ Len(response) = 0 THEN response
  ELSE IF isLikelyCodingProblem(originalText)
          \/ (hasCodeBlocks(response) /\ isCodingSkill(activeSkill))
  THEN response
  ELSE IF ~isMcq(originalText) THEN response
  ELSE Strict(extractedAnswer(response),
              LAMBDA letter :
                IF letter = NoLetter THEN response
                ELSE Strict(optionText(originalText, letter),
                            LAMBDA text :
                              IF Len(text) > 0 THEN WithExplanation(response, letter, text)
                              ELSE Strict(lastResortText(originalText, letter),
                                          LAMBDA extracted :
                                            IF Len(extracted) > 0
                                            THEN formattedResponse(letter, extracted)
                                            ELSE <<"#", "#", " ", "A", "n", "s", "w", "e", "r", ":", " ">> \o <<letter>> \o <<"\n", "\n">>
                                                 \o response)))

\* ---- calls of processTextWithSkill that overlap: a caller need not wait
\* for the call before
ConcurrentInit ==
  /\ numModels = MaxKeys
  /\ isInitialized = TRUE
  /\ currentKeyIndex = 0
  /\ exhaustedKeys = {}
  /\ requestCount = 0
  /\ errorCount = 0
  /\ fallbackEnabled = TRUE
  /\ enableFallbackMethod = TRUE
  /\ maxActive = NumSlots
  /\ call = [c \in Slots |-> IdleCall]
  /\ last = [c \in Slots |-> NoAttempt]
  /\ probe = NoProbe

\* the replies the transports give to overlapping calls, and the skill asked
ConcurrentReplies ==
  { NoError, Err({"fetch failed"}, 0),
    Err({"HTTP 429"}, 429), Err({"HTTP 403"}, 403), Err({"HTTP 500"}, 500) }

\* the calls are followed through the attempts that have the fallback of
\* lines 859-875 (attempt <= 2)
ConcurrentInputs ==
  \A c \in Slots :
    /\ call[c].skill \in {"", "dsa"}
    /\ last[c].error \in ConcurrentReplies
    /\ call[c].attempt <= 2

ConcurrentNext ==
  \E c \in Slots :
    \/ StartCall(c) /\ ConcurrentInputs'
    \/ PreflightDone(c) /\ ConcurrentInputs'
    \/ TransportAReturns(c) /\ ConcurrentInputs'
    \/ BackoffDone(c) /\ ConcurrentInputs'
    \/ TransportBReturns(c) /\ ConcurrentInputs'
    \/ AltBackoffDone(c) /\ ConcurrentInputs'
    \/ Deliver(c) /\ ConcurrentInputs'

ConcurrentSpec == ConcurrentInit /\ [][ConcurrentNext]_vars

\* ------------------------------------------- functions called on their own
\* the service as the constructor leaves it with n keys and the default
\* configuration
Constructed(n) ==
  /\ numModels = n
  /\ isInitialized = (n > 0)
  /\ currentKeyIndex = 0
  /\ exhaustedKeys = {}
  /\ requestCount = 0
  /\ errorCount = 0
  /\ fallbackEnabled = TRUE
  /\ enableFallbackMethod = TRUE
  /\ maxActive = 1
  /\ call = [c \in Slots |-> IdleCall]
  /\ last = [c \in Slots |-> NoAttempt]

\* message texts: every needle of analyzeError, texts in mixed case and a
\* text without any needle
Fragments ==
  Triggers \cup {"read ECONNRESET", "ECONNREFUSED", "Socket Hang Up", "Invalid API Key",
                 "[403 Forbidden]", "Resource Exhausted", "[429 Too Many Requests]",
                 "Timed Out", "Request timeout", "Bad Gateway", "HTTP 500",
                 "[400 Bad Request]", "Invalid Request", "Something Went Wrong"}

RECURSIVE MessagesOf(_)
\* the messages made of at most k texts
MessagesOf(k) ==
  IF k = 0 THEN {{}}
  ELSE LET shorter == MessagesOf(k - 1)
       IN shorter \cup {m \cup {f} : m \in shorter, f \in Fragments}

\* one text per kind, for the messages that mix any number of kinds
KindSample ==
  {"socket hang up", "Invalid API Key", "quota", "Timed Out", "503", "bad request"}

ClassifyMessages == MessagesOf(MaxFragments) \cup SUBSET KindSample

ClassifyInit ==
  /\ Constructed(0)
  /\ probe \in {[op |-> "analyzeError", error |-> Err(m, 0), result |-> NoErrorInfo,
                  done |-> FALSE] : m \in ClassifyMessages}

\* analyzeError(error) is called
Classify ==
  /\ probe.op = "analyzeError" /\ ~probe.done
  /\ probe' = [probe EXCEPT !.result = analyzeError(probe.error), !.done = TRUE]
  /\ UNCHANGED service

ClassifySpec == ClassifyInit /\ [][Classify]_vars

\* ---- getNextModel and markKeyExhausted, called in any order
PoolProbe(op, keyIndex, before, once, returned) ==
  [op |-> op, keyIndex |-> keyIndex, before |-> before, once |-> once, returned |-> returned]

PoolRest ==
  UNCHANGED <<numModels, isInitialized, requestCount, errorCount, fallbackEnabled,
              enableFallbackMethod, maxActive, call, last>>

PoolBecomes(pool) ==
  /\ currentKeyIndex' = pool.currentKeyIndex
  /\ exhaustedKeys' = pool.exhaustedKeys

PoolInit ==
  /\ \E n \in 0..MaxPool : Constructed(n)
  /\ probe = PoolProbe("constructor", Null, Pool(0, {}), Pool(0, {}), Null)

GetNextModel ==
  /\ probe.op # "none"
  /\ LET r == getNextModel(numModels, ThePool)
     IN /\ PoolBecomes(r.pool)
        /\ probe' = PoolProbe("getNextModel", Null, ThePool, r.pool, r.index)
  /\ PoolRest

MarkKeyExhausted(keyIndex) ==
  /\ probe.op # "none"
  /\ keyIndex \in 0..(numModels - 1)
  /\ LET pool == markKeyExhausted(numModels, ThePool, keyIndex)
     IN /\ PoolBecomes(pool)
        /\ probe' = PoolProbe("markKeyExhausted", keyIndex, ThePool, pool, Null)
  /\ PoolRest

\* the same call once more, right after the first
MarkKeyExhaustedAgain ==
  /\ probe.op = "markKeyExhausted"
  /\ LET pool == markKeyExhausted(numModels, ThePool, probe.keyIndex)
     IN /\ PoolBecomes(pool)
        /\ probe' = [probe EXCEPT !.op = "markKeyExhausted twice"]
  /\ PoolRest

\* a Transport B success: this.currentKeyIndex = keyInfo.index
KeySucceeded(keyIndex) ==
  /\ probe.op # "none"
  /\ keyIndex \in 0..(numModels - 1)
  /\ PoolBecomes(Pool(keyIndex, exhaustedKeys))
  /\ probe' = PoolProbe("success", keyIndex, ThePool, Pool(keyIndex, exhaustedKeys), Null)
  /\ PoolRest

PoolNext ==
  \/ GetNextModel
  \/ \E keyIndex \in 0..(MaxPool - 1) : MarkKeyExhausted(keyIndex)
  \/ MarkKeyExhaustedAgain
  \/ \E keyIndex \in 0..(MaxPool - 1) : KeySucceeded(keyIndex)

PoolSpec == PoolInit /\ [][PoolNext]_vars

\* ---- transformRequestForHttpTransport on a Request
\* an object without properties; a missing part is mapped to it
EmptyObject == <<>>

Has(object, key) == key \in DOMAIN object

\* normalizePart with the text emptied
normalizePartEmptied(part) ==
  IF part = EmptyObject THEN EmptyObject
  ELSE IF Has(part, "text") THEN [text |-> ""]
  ELSE IF Has(part, "inlineData") THEN [inline_data |-> part.inlineData]
  ELSE IF Has(part, "fileData") THEN [file_data |-> part.fileData]
  ELSE part

normalizePart(part) ==
  IF part = EmptyObject THEN EmptyObject
  ELSE IF Has(part, "text") THEN [text |-> part.text]
  ELSE IF Has(part, "inlineData") THEN [inline_data |-> part.inlineData]
  ELSE IF Has(part, "fileData") THEN [file_data |-> part.fileData]
  ELSE part

NormalizeParts(parts) == [k \in 1..Len(parts) |-> normalizePart(parts[k])]

\* one property of the payload when the request has the property it is built from
Property(request, from, key, value) ==
  IF Has(request, from) THEN (key :> value) ELSE EmptyObject

transformRequestForHttpTransport(request) ==
  Property(request, "systemInstruction", "system_instruction",
           [parts |-> NormalizeParts(request.systemInstruction.parts)])
  @@ Property(request, "contents", "contents",
              [k \in 1..Len(request.contents) |->
                 [role |-> request.contents[k].role,
                  parts |-> NormalizeParts(request.contents[k].parts)]])
  @@ Property(request, "generationConfig", "generation_config", request.generationConfig)

Roles == {"user", "model"}

Texts == {"", "Hi", " two words "}

PartValues ==
  {EmptyObject}
    \cup {[text |-> t] : t \in Texts}
    \cup {[text |-> "Hi", thought |-> TRUE], [inlineData |-> "png"], [fileData |-> "uri"],
          [functionCall |-> "f"]}

RECURSIVE SeqsUpTo(_, _)
\* the sequences over S of length n at most
SeqsUpTo(S, n) ==
  IF n = 0 THEN {<<>>}
  ELSE LET shorter == SeqsUpTo(S, n - 1)
       IN shorter \cup {Append(q, x) : q \in shorter, x \in S}

Turns == {[role |-> r, parts |-> p] : r \in Roles, p \in SeqsUpTo(PartValues, MaxParts)}

generationConfig == [temperature |-> 7, maxOutputTokens |-> 8192, topK |-> 40, topP |-> 95]

Requests ==
  {[contents |-> c, generationConfig |-> generationConfig] : c \in SeqsUpTo(Turns, MaxTurns)}
    \cup {[contents |-> c, generationConfig |-> generationConfig,
           systemInstruction |-> [parts |-> <<[text |-> "prompt"]>>]] :
             c \in SeqsUpTo(Turns, MaxTurns)}

TransformInit ==
  /\ Constructed(0)
  /\ probe \in {[op |-> "transformRequestForHttpTransport", request |-> r,
                  payload |-> EmptyObject, done |-> FALSE] : r \in Requests}

Transform ==
  /\ probe.op = "transformRequestForHttpTransport"
  /\ ~probe.done
  /\ probe' = [probe EXCEPT !.payload = transformRequestForHttpTransport(probe.request),
                            !.done = TRUE]
  /\ UNCHANGED service

TransformSpec == TransformInit /\ [][Transform]_vars

\* ---- one Request handed to the attempts of a call
\* attempts of one call that are followed here
MaxSends == 3

\* a transport step that normalises the turns of the Request object itself
TransportedInPlace(request) ==
  [request |-> [request EXCEPT
                  !.contents = transformRequestForHttpTransport(request).contents],
   payload |-> transformRequestForHttpTransport(request)]

\* lines 1753-1755: the payload is built from the Request on every credential;
\* the Request object is read and no property of it is assigned
Transported(request) ==
  [request |-> request, payload |-> transformRequestForHttpTransport(request)]

\* probe.request is the Request object, probe.built its value when
\* construction finished, probe.sent what each attempt was handed
SendInit ==
  /\ Constructed(1)
  /\ probe \in {[op |-> "send", built |-> r, request |-> r, sent |-> <<>>] :
                  r \in Requests}

\* lines 773-774: generateContent(geminiRequest)
SendByTransportA ==
  /\ probe.op = "send"
  /\ Len(probe.sent) < MaxSends
  /\ probe' = [probe EXCEPT
                 !.sent = Append(@, [by |-> "A", request |-> probe.request])]
  /\ UNCHANGED service

\* lines 1749-1762: one credential of executeAlternativeRequest
SendByTransportB ==
  /\ probe.op = "send"
  /\ Len(probe.sent) < MaxSends
  /\ LET transported == Transported(probe.request)
     IN probe' = [probe EXCEPT
                    !.request = transported.request,
                    !.sent = Append(@, [by |-> "B", payload |-> transported.payload])]
  /\ UNCHANGED service

SendSpec == SendInit /\ [][SendByTransportA \/ SendByTransportB]_vars

\* ---- extractMcqAnswer on a model answer, and again on its own result
\* "Which is a stable sort? A) QuickSort B) MergeSort C) HeapSort D) Bubble Sort"
OneLinePrompt ==
  <<"W", "h", "i", "c", "h", " ", "i", "s", " ", "a",
    " ", "s", "t", "a", "b", "l", "e", " ", "s", "o",
    "r", "t", "?", " ", "A", ")", " ", "Q", "u", "i",
    "c", "k", "S", "o", "r", "t", " ", "B", ")", " ",
    "M", "e", "r", "g", "e", "S", "o", "r", "t", " ",
    "C", ")", " ", "H", "e", "a", "p", "S", "o", "r",
    "t", " ", "D", ")", " ", "B", "u", "b", "b", "l",
    "e", " ", "S", "o", "r", "t">>

\* the same question with every option on a line of its own
OptionLinesPrompt ==
  <<"W", "h", "i", "c", "h", " ", "i", "s", " ", "a",
    " ", "s", "t", "a", "b", "l", "e", " ", "s", "o",
    "r", "t", "?", "\n", "A", ")", " ", "Q", "u", "i",
    "c", "k", "S", "o", "r", "t", "\n", "B", ")", " ",
    "M", "e", "r", "g", "e", "S", "o", "r", "t", "\n",
    "C", ")", " ", "H", "e", "a", "p", "S", "o", "r",
    "t", "\n", "D", ")", " ", "B", "u", "b", "b", "l",
    "e", " ", "S", "o", "r", "t">>

CodingPrompt ==
  <<"I", "m", "p", "l", "e", "m", "e", "n", "t", " ",
    "a", " ", "s", "t", "a", "c", "k", ".", " ", "A",
    ")", " ", "a", "r", "r", "a", "y", " ", "B", ")",
    " ", "l", "i", "s", "t">>

McqPrompts == {OneLinePrompt, OptionLinesPrompt, CodingPrompt}

AnswerB == <<"A", "n", "s", "w", "e", "r", ":", " ", "B">>

McqAnswers ==
  { AnswerB,
    <<"B">>,
    <<"A">>,
    <<"E">>,
    <<"T", "h", "e", " ", "a", "n", "s", "w", "e", "r", " ", "i", "s", " ", "D">>,
    <<Backquote, Backquote, Backquote, "\n", "B", "\n", Backquote, Backquote, Backquote>>,
    <<"B", ",", " ", "i", "t", " ", "k", "e", "e", "p", "s", " ", "e", "q", "u", "a", "l", " ", "k", "e", "y", "s", " ", "i", "n", " ", "o", "r", "d", "e", "r">> }

McqInit ==
  /\ Constructed(0)
  /\ probe \in {[op |-> "extractMcqAnswer", response |-> a, originalText |-> p,
                  activeSkill |-> s, result |-> <<>>, again |-> <<>>, runs |-> 0] :
                   a \in McqAnswers, p \in McqPrompts, s \in Skills}

Extract ==
  /\ probe.op = "extractMcqAnswer"
  /\ probe.runs = 0
  /\ probe' = [probe EXCEPT
                 !.result = extractMcqAnswer(probe.response, probe.originalText,
                                             probe.activeSkill),
                 !.runs = 1]
  /\ UNCHANGED service

ExtractAgain ==
  /\ probe.op = "extractMcqAnswer"
  /\ probe.runs = 1
  /\ probe' = [probe EXCEPT
                 !.again = extractMcqAnswer(probe.result, probe.originalText,
                                            probe.activeSkill),
                 !.runs = 2]
  /\ UNCHANGED service

McqSpec == McqInit /\ [][Extract \/ ExtractAgain]_vars

\* ---- the replies of the two transports, read on their own
\* JavaScript values: what JSON.parse and the SDK hand to the code
Undefined == [type |-> "undefined"]

JsNull == [type |-> "null"]

Str(chars) == [type |-> "string", chars |-> chars]

Num(n) == [type |-> "number", number |-> n]

Arr(items) == [type |-> "array", items |-> items]

Obj(fields) == [type |-> "object", fields |-> fields]

\* ToBoolean
Truthy(v) ==
  CASE v.type \in {"undefined", "null"} -> FALSE
    [] v.type = "string" -> v.chars # <<>>
    [] v.type = "number" -> v.number # 0
    [] OTHER -> TRUE

\* v[key] of a value that is neither null nor undefined
Get(v, key) ==
  IF v.type = "object" /\ key \in DOMAIN v.fields THEN v.fields[key] ELSE Undefined

\* a property access that throws TypeError
Nullish(v) == v.type \in {"undefined", "null"}

IsArray(v) == v.type = "array"

\* v || 0 for a token count
OrZero(v) == IF Truthy(v) /\ v.type = "number" THEN v.number ELSE 0

Resolved(text) == [kind |-> "resolved", text |-> text]

\* a rejection: the message, the statusCode set on the error (0 when none)
\* and the numbers the message quotes
Rejected(message, statusCode, counts) ==
  [kind |-> "rejected", error |-> Err(message, statusCode), counts |-> counts]

\* a body that JSON.parse does not accept
Malformed == [type |-> "malformed"]

HttpStatusText(statusCode) ==
  CASE statusCode = 400 -> "HTTP 400"
    [] statusCode = 401 -> "HTTP 401"
    [] statusCode = 403 -> "HTTP 403"
    [] statusCode = 429 -> "HTTP 429"
    [] statusCode = 500 -> "HTTP 500"
    [] OTHER -> "HTTP 503"

\* lines 1903-1945: a reply whose status is not 200; the message starts with
\* the status and statusCode is the body's error.code when it has one
RejectStatus(statusCode, data) ==
  LET error == IF data = Malformed \/ Nullish(data) THEN Undefined ELSE Get(data, "error")
      code == IF Truthy(error) /\ Truthy(Get(error, "code")) /\ Get(error, "code").type = "number"
              THEN Get(error, "code").number ELSE statusCode
  IN Rejected({HttpStatusText(statusCode)}, code, <<>>)

\* ReadParts that accepts any string as it is
ReadPartsUntrimmed(parts) ==
  LET firstPart == IF IsArray(parts) /\ Len(parts.items) > 0 THEN parts.items[1] ELSE Undefined
      text == IF Nullish(firstPart) THEN Undefined ELSE Get(firstPart, "text")
  IN IF ~Truthy(parts)
     THEN Rejected({"Invalid response structure: content missing parts"}, 0, <<>>)
     ELSE IF ~IsArray(parts) \/ Len(parts.items) = 0
     THEN Rejected({"Invalid response structure: parts array is empty"}, 0, <<>>)
     ELSE IF ~Truthy(firstPart) \/ ~Truthy(text)
     THEN Rejected({"Invalid response structure: part missing text"}, 0, <<>>)
     ELSE IF text.type # "string"
     THEN Rejected({"Empty or invalid text content in Gemini response"}, 0, <<>>)
     ELSE Resolved(text.chars)

\* lines 2033-2082: the parts of the first candidate; parts is truthy or the
\* reply is not truncated
ReadParts(parts) ==
  LET firstPart == IF IsArray(parts) /\ Len(parts.items) > 0 THEN parts.items[1] ELSE Undefined
      text == IF Nullish(firstPart) THEN Undefined ELSE Get(firstPart, "text")
  IN IF ~Truthy(parts)
     THEN Rejected({"Invalid response structure: content missing parts"}, 0, <<>>)
     ELSE IF ~IsArray(parts) \/ Len(parts.items) = 0
     THEN Rejected({"Invalid response structure: parts array is empty"}, 0, <<>>)
     ELSE IF ~Truthy(firstPart) \/ ~Truthy(text)
     THEN Rejected({"Invalid response structure: part missing text"}, 0, <<>>)
     ELSE IF text.type # "string" \/ Len(Trim(text.chars)) = 0
     THEN Rejected({"Empty or invalid text content in Gemini response"}, 0, <<>>)
     ELSE Resolved(Trim(text.chars))

MaxTokens == Str(<<"M", "A", "X", "_", "T", "O", "K", "E", "N", "S">>)

\* lines 2004-2031: finishReason MAX_TOKENS
ReadCandidate(reading) ==
  LET candidate == reading.candidate
      usageInfo == IF Truthy(Get(reading.response, "usageMetadata"))
                   THEN Get(reading.response, "usageMetadata") ELSE Obj(EmptyObject)
      parts == Get(Get(candidate, "content"), "parts")
  IN IF Get(candidate, "finishReason") = MaxTokens
        /\ (~Truthy(parts) \/ ~IsArray(parts) \/ Len(parts.items) = 0)
     THEN Rejected({"Response truncated: MAX_TOKENS limit reached with no content",
                    "Thoughts tokens: ", "Total tokens: "}, 0,
                   <<OrZero(Get(usageInfo, "thoughtsTokenCount")),
                     OrZero(Get(usageInfo, "totalTokenCount"))>>)
     ELSE ReadParts(parts)

\* lines 1946-2003: the body of a 200 reply down to the first candidate
ReadResponse(data) ==
  LET response == data
      candidates == Get(response, "candidates")
      candidate == IF IsArray(candidates) /\ Len(candidates.items) > 0
                   THEN candidates.items[1] ELSE Undefined
  IN IF data = Malformed
     THEN Rejected({"Failed to parse JSON response: "}, 0, <<>>)
     ELSE IF Nullish(response)
     THEN Rejected({"Failed to parse response: "}, 0, <<>>)
     ELSE IF Truthy(Get(response, "error"))
     THEN Rejected({"Gemini API error: "}, 0, <<>>)
     ELSE IF ~Truthy(candidates)
     THEN Rejected({"Invalid response structure: missing candidates array"}, 0, <<>>)
     ELSE IF ~IsArray(candidates) \/ Len(candidates.items) = 0
     THEN Rejected({"Invalid response structure: candidates array is empty"}, 0, <<>>)
     ELSE IF Nullish(candidate)
     THEN Rejected({"Failed to parse response: "}, 0, <<>>)
     ELSE IF ~Truthy(Get(candidate, "content"))
     THEN Rejected({"Invalid response structure: candidate missing content"}, 0, <<>>)
     ELSE ReadCandidate([response |-> response, candidate |-> candidate])

\* lines 1892-2092: the 'end' handler of _makeAlternativeRequest
_makeAlternativeRequest(res) ==
  IF res.statusCode # 200 THEN RejectStatus(res.statusCode, res.data)
  ELSE ReadResponse(res.data)

\* lines 776-794 (and 942-946): what executeRequest makes of the value that
\* generateContent resolved with; text() is result.response.text()
ReadResult(result) ==
  LET response == IF Nullish(result) THEN Undefined ELSE Get(result, "response")
      responseText == IF Nullish(response) THEN Undefined ELSE Get(response, "text()")
  IN IF ~Truthy(result) \/ ~Truthy(response)
     THEN Rejected({"Empty response from Gemini API"}, 0, <<>>)
     ELSE IF ~Truthy(responseText) \/ responseText.type # "string"
             \/ Len(Trim(responseText.chars)) = 0
     THEN Rejected({"Empty text content in Gemini response"}, 0, <<>>)
     ELSE Resolved(Trim(responseText.chars))

\* the texts a part can carry: empty, blank, plain and padded
ReplyTexts == {<<>>, <<" ", "\n">>, <<"o", "k">>, <<" ", "o", "k", "\n">>}

TextValues == {JsNull, Num(7)} \cup {Str(t) : t \in ReplyTexts}

Thought == Obj([thought |-> Num(1)])

ReplyParts ==
  {JsNull, Obj(EmptyObject), Thought} \cup {Obj([text |-> v]) : v \in TextValues}

PartsValues ==
  {JsNull, Str(<<"o", "k">>), Arr(<<>>), Arr(<<Thought, Obj([text |-> Str(<<"o", "k">>)])>>)}
    \cup {Arr(<<p>>) : p \in ReplyParts}

ContentValues ==
  {JsNull, Obj(EmptyObject)} \cup {Obj([parts |-> p]) : p \in PartsValues}

FinishReasons == {MaxTokens, Str(<<"S", "T", "O", "P">>)}

CandidateValues ==
  {JsNull, Obj(EmptyObject)}
    \cup {Obj([content |-> c]) : c \in ContentValues}
    \cup {Obj([content |-> c, finishReason |-> f]) : c \in ContentValues, f \in FinishReasons}

CandidatesValues ==
  {JsNull, Obj(EmptyObject), Arr(<<>>)} \cup {Arr(<<c>>) : c \in CandidateValues}

UsageValues ==
  {Obj([thoughtsTokenCount |-> Num(5), totalTokenCount |-> Num(9)]),
   Obj([totalTokenCount |-> Num(9)])}

Bodies ==
  {Malformed, JsNull, Obj(EmptyObject),
   Obj([error |-> Obj([code |-> Num(429)])]),
   Obj([error |-> Obj([code |-> Num(400)]),
        candidates |-> Arr(<<Obj([content |-> Obj([parts |-> Arr(<<Obj([text |-> Str(<<"o", "k">>)])>>)])])>>)])}
    \cup {Obj([candidates |-> c]) : c \in CandidatesValues}
    \cup {Obj([candidates |-> c, usageMetadata |-> u]) : c \in CandidatesValues, u \in UsageValues}

Replies ==
  {[statusCode |-> 200, data |-> d] : d \in Bodies}
    \cup {[statusCode |-> s, data |-> d] :
            s \in {400, 401, 403, 429, 500, 503},
            d \in {Malformed, Obj(EmptyObject), Obj([error |-> Obj([code |-> Num(429)])])}}

Results ==
  {Undefined, JsNull, Obj(EmptyObject)}
    \cup {Obj([response |-> Obj(("text()" :> v))]) : v \in TextValues \cup {Undefined}}

ReplyInit ==
  /\ Constructed(0)
  /\ probe \in {[op |-> "_makeAlternativeRequest", reply |-> r, outcome |-> NoOutcome,
                  done |-> FALSE] : r \in Replies}
                 \cup {[op |-> "generateContent", reply |-> r, outcome |-> NoOutcome,
                        done |-> FALSE] : r \in Results}

\* the 'end' event of the HTTPS reply
AlternativeReplyEnds ==
  /\ probe.op = "_makeAlternativeRequest" /\ ~probe.done
  /\ probe' = [probe EXCEPT !.outcome = _makeAlternativeRequest(probe.reply), !.done = TRUE]
  /\ UNCHANGED service

\* generateContent resolves
GenerateContentResolves ==
  /\ probe.op = "generateContent" /\ ~probe.done
  /\ probe' = [probe EXCEPT !.outcome = ReadResult(probe.reply), !.done = TRUE]
  /\ UNCHANGED service

ReplySpec == ReplyInit /\ [][AlternativeReplyEnds \/ GenerateContentResolves]_vars

\* ---- the race of a Transport A attempt against its timer
\* attempts of the retry loop that are followed here
MaxAttempts == 2

Pending == [kind |-> "pending"]

Fulfilled(value) == [kind |-> "fulfilled", value |-> value]

Failed(error) == [kind |-> "rejected", error |-> error]

\* what generateContent can settle with
Settlements ==
  {Fulfilled(r) : r \in Results}
    \cup {Failed(Err({"fetch failed"}, 0)),
          Failed(Err({"[429 Too Many Requests]", "quota exceeded"}, 429))}

\* the timer of lines 735-737
TimerRejection == Failed(Err({"Request timeout"}, 0))

\* a race that follows the promise that settled last
SettleRaceLastWins(race, settlement) == settlement

\* line 774: Promise.race settles with the first of its promises to settle
SettleRace(race, settlement) == IF race = Pending THEN settlement ELSE race

\* lines 774-794: what the attempt makes of the settled race
AttemptOutcome(race) ==
  CASE race.kind = "pending" -> NoOutcome
    [] race.kind = "fulfilled" -> ReadResult(race.value)
    [] OTHER -> Rejected(race.error.message, race.error.status, <<>>)

\* one iteration of the loop: its two promises, the race and, for the
\* properties, which of the two promises settled first
NewAttempt == [request |-> Pending, timer |-> Pending, race |-> Pending, first |-> "none"]

RaceInit ==
  /\ Constructed(1)
  /\ probe = [op |-> "Promise.race", attempts |-> <<NewAttempt>>]

Raced(attempts) ==
  /\ probe' = [probe EXCEPT !.attempts = attempts]
  /\ UNCHANGED service

\* the setTimeout callback of attempt i runs
TimerFires(i) ==
  /\ probe.op = "Promise.race"
  /\ i \in 1..Len(probe.attempts)
  /\ probe.attempts[i].timer = Pending
  /\ Raced([probe.attempts EXCEPT
              ![i].timer = TimerRejection,
              ![i].race = SettleRace(@, TimerRejection),
              ![i].first = IF @ = "none" THEN "timer" ELSE @])

\* generateContent of attempt i settles
GenerateContentSettles(i) ==
  /\ probe.op = "Promise.race"
  /\ i \in 1..Len(probe.attempts)
  /\ probe.attempts[i].request = Pending
  /\ \E settlement \in Settlements :
       Raced([probe.attempts EXCEPT
                ![i].request = settlement,
                ![i].race = SettleRace(@, settlement),
                ![i].first = IF @ = "none" THEN "request" ELSE @])

\* lines 795-980 and 728: the attempt failed with a retryable error and the
\* loop goes round
NextAttempt ==
  /\ probe.op = "Promise.race"
  /\ Len(probe.attempts) < MaxAttempts
  /\ LET outcome == AttemptOutcome(probe.attempts[Len(probe.attempts)].race)
     IN /\ outcome.kind = "rejected"
        /\ analyzeError(outcome.error).isRetryable
  /\ Raced(Append(probe.attempts, NewAttempt))

RaceNext ==
  \/ \E i \in 1..MaxAttempts : TimerFires(i) \/ GenerateContentSettles(i)
  \/ NextAttempt

RaceSpec == RaceInit /\ [][RaceNext]_vars

\* ============================================================== claims
Done(c) == call[c].pc = "done"

InProgress(c) == call[c].pc \notin {"idle", "done"}

Returned(c) == Done(c) /\ call[c].outcome.kind = "returned"

Raised(c) == Done(c) /\ call[c].outcome.kind = "raised"

Genuine(c) == Returned(c) /\ ~call[c].outcome.metadata.usedFallback

NonRetryable(error) == error # NoError /\ ~analyzeError(error).isRetryable

\* C1: when a Transport A attempt of a call fails with an error classified
\* AUTH_ERROR or INVALID_REQUEST_ERROR, the call ends in that very step: no
\* further transport request is sent, currentKeyIndex and exhaustedKeys are
\* unchanged, and if it was the first attempt the call sent exactly one
\* transport request.
C1_NonRetryableEndsCall ==
  [][\A c \in Slots :
       (call[c].pc = "awaitA" /\ NonRetryable(call'[c].lastError))
       => /\ call'[c].pc = "done"
          /\ ~(call'[c].outcome.kind = "returned" /\ ~call'[c].outcome.metadata.usedFallback)
          /\ currentKeyIndex' = currentKeyIndex
          /\ exhaustedKeys' = exhaustedKeys
          /\ call'[c].sent = call[c].sent
          /\ (call[c].attempt = 1 => call'[c].sent = 1)]_vars

C1_Witness ==
  \E c \in Slots :
    /\ Done(c) /\ call[c].attempt = 1 /\ call[c].sent = 1
    /\ analyzeError(call[c].lastError).type = "AUTH_ERROR"
    /\ Includes(MessageToLowerCase(call[c].lastError.message), "quota")
    /\ numModels > 1

\* C2: with at least two credentials and the raw-transport fallback on, after
\* Transport A failed with 'fetch failed': (1) when Transport B gives up with a
\* network error on the credential Transport A used and the next credential
\* is not exhausted, the next request is Transport B with that next
\* credential; (2) when that request succeeds, the call returns its answer
\* (no canned text, no error) and currentKeyIndex is that credential's index.
C2_NextKeyAlternativeAnswers ==
  [][\A c \in Slots :
       LET l == call[c]
           m == call'[c]
           nextKey == (l.keyIndex + 1) % numModels
           scenario == /\ l.pc = "awaitB" /\ numModels >= 2 /\ enableFallbackMethod
                       /\ l.ctx \in {"loop", "outerSame"}
                       /\ Includes(l.lastError.message, "fetch failed")
                       /\ l.keysToTry[1] = l.keyIndex
       IN /\ ( /\ scenario /\ l.kpos = 1 /\ nextKey \notin exhaustedKeys
               /\ last'[c].error # NoError /\ analyzeError(last'[c].error).isNetworkError
               /\ m.pc # "altBackoff" )
             => ( /\ m.pc = "awaitB" /\ m.ctx = l.ctx /\ m.kpos = 2
                  /\ m.keysToTry = l.keysToTry /\ m.keysToTry[2] = nextKey )
          /\ ( /\ scenario /\ l.kpos = 2 /\ l.altAttempt = 1 /\ l.keysToTry[2] = nextKey
               /\ analyzeError(l.altLastError).isNetworkError
               /\ last'[c].error = NoError )
             => ( /\ m.pc = "done" /\ m.outcome.kind = "returned"
                  /\ ~m.outcome.metadata.usedFallback
                  /\ m.outcome.response.by = "B" /\ m.outcome.response.key = nextKey
                  /\ currentKeyIndex' = nextKey )]_vars

C2_Witness ==
  \E c \in Slots :
    /\ Genuine(c) /\ numModels >= 2 /\ call[c].ctx = "loop" /\ call[c].kpos = 2
    /\ Includes(call[c].lastError.message, "fetch failed")
    /\ analyzeError(call[c].altLastError).isNetworkError
    /\ call[c].outcome.response.by = "B"
    /\ call[c].outcome.response.key = (call[c].keyIndex + 1) % numModels
    /\ currentKeyIndex = call[c].outcome.response.key

\* C3: a returned model answer has usedAlternativeMethod = true and carries the
\* answering credential's index in its metadata whenever Transport B produced
\* it, and usedAlternativeMethod = false whenever Transport A produced it.
C3_AlternativeMethodFlag ==
  \A c \in Slots :
    Genuine(c) =>
      LET o == call[c].outcome
      IN IF o.response.by = "B"
         THEN o.metadata.usedAlternativeMethod /\ "keyIndex" \in DOMAIN o.metadata
         ELSE ~o.metadata.usedAlternativeMethod

\* C4: with at least two credentials that answer every request with a
\* rate-limit error, a finished call has marked every credential exhausted,
\* reset the pool exactly once and made its last attempt with the first
\* credential of the reset pool.
C4_RateLimitedPoolResetsOnce ==
  \A c \in Slots :
    (Done(c) /\ call[c].attempt >= 1 /\ numModels >= 2 /\ call[c].onlyRateLimit)
    => (call[c].resets = 1 /\ last[c].key = 0)

AllKeys == 0..(numModels - 1)

\* the step in which call c runs getNextModel and issues Transport A
SelectsModel(c) ==
  call[c].pc \in {"preflight", "backoff"} /\ call'[c].pc = "awaitA"

\* C5 as stated: for every pool size N >= 1, getNextModel called with every
\* index in exhaustedKeys returns a credential and leaves exhaustedKeys empty.
C5_ResetOnEveryPoolSize ==
  [][\A c \in Slots :
       (SelectsModel(c) /\ exhaustedKeys = AllKeys)
       => (call'[c].keyIndex \in AllKeys /\ exhaustedKeys' = {})]_vars

\* C5 amended: for N >= 2, getNextModel called with every index in
\* exhaustedKeys clears exhaustedKeys and returns credential 0 with
\* currentKeyIndex 0; for N = 1 it returns the only credential and leaves
\* exhaustedKeys as it was.
C5_ResetWhenAllExhausted ==
  [][\A c \in Slots :
       (SelectsModel(c) /\ exhaustedKeys = AllKeys)
       => IF numModels >= 2
          THEN call'[c].keyIndex = 0 /\ currentKeyIndex' = 0 /\ exhaustedKeys' = {}
               /\ call'[c].resets = call[c].resets + 1
          ELSE call'[c].keyIndex = 0 /\ exhaustedKeys' = exhaustedKeys
               /\ call'[c].resets = call[c].resets]_vars

C5_Witness ==
  \E c \in Slots :
    /\ call[c].pc = "awaitA" /\ numModels >= 2 /\ call[c].resets = 1
    /\ exhaustedKeys = {} /\ call[c].keyIndex = 0 /\ call[c].attempt = 2

\* C6: a call that fails terminally with fallbackEnabled returns the static
\* string of its skill (the default string for a skill without an entry) with
\* usedFallback = true; a call that succeeds returns the model's answer with
\* usedFallback = false; so usedFallback is true exactly for the canned text.
C6_FallbackFlagMarksCannedAnswer ==
  [][\A c \in Slots :
       (InProgress(c) /\ call'[c].pc = "done")
       => LET o == call'[c].outcome
              failed == last'[c].error # NoError
          IN /\ (failed /\ fallbackEnabled)
                  => /\ o.kind = "returned"
                     /\ o.metadata.usedFallback
                     /\ o.response.text =
                          (CASE call[c].skill = "dsa" ->
                                  "This appears to be a data structures and algorithms problem."
                             [] OTHER -> "I can help analyze this content.")
             /\ ~failed
                  => /\ o.kind = "returned"
                     /\ ~o.metadata.usedFallback
                     /\ o.response.by \in {"A", "B"}
                     /\ o.response.key = last'[c].key
             /\ o.kind = "returned" => (o.metadata.usedFallback <=> failed)]_vars

C6_Witness ==
  \E c \in Slots :
    /\ Returned(c) /\ call[c].outcome.metadata.usedFallback /\ call[c].skill = "dsa"
    /\ call[c].attempt = MaxRetries

\* C7 as stated: with fallbackEnabled, every call returns {response, metadata}
\* and never raises, whether the service is initialized or not.
C7_NeverRaisesWithFallback ==
  \A c \in Slots : (Done(c) /\ fallbackEnabled) => call[c].outcome.kind = "returned"

\* C7 amended: with fallbackEnabled, every call on an initialized service
\* returns an object with response and metadata and never raises; a call on
\* a service that is not initialized raises 'LLM service not initialized'.
C7_InitializedNeverRaisesWithFallback ==
  \A c \in Slots :
    Done(c) =>
      IF isInitialized
      THEN fallbackEnabled
             => /\ call[c].outcome.kind = "returned"
                /\ DOMAIN call[c].outcome = {"kind", "response", "metadata"}
                /\ "usedFallback" \in DOMAIN call[c].outcome.metadata
      ELSE /\ call[c].outcome.kind = "raised"
           /\ call[c].outcome.error.message = {"LLM service not initialized"}

C7_Witness ==
  \E c \in Slots :
    /\ Returned(c) /\ fallbackEnabled /\ call[c].outcome.metadata.usedFallback
    /\ call[c].ctx = "outerNext"

FailedAfterAttempts(c) == Raised(c) /\ call[c].attempt >= 1

C9_EveryCallTerminates == \A c \in Slots : InProgress(c) ~> Done(c)

C9_Witness ==
  \E c \in Slots :
    /\ Done(c) /\ call[c].attempt = MaxRetries /\ call[c].resets >= 2
    /\ last[c].error # NoError

Capped(d) == IF d < DelayCap THEN d ELSE DelayCap

\* C10: for every attempt number 1..maxRetries and either base, the delay
\* without jitter (capped) does not decrease from one attempt number to the
\* next and the delay with jitter is at most 10000 ms; and whenever
\* executeRequest starts a backoff sleep, the delay slept is the one computed
\* for the attempt: at most 10000 ms, and without jitter at least the one of
\* every earlier attempt number, whichever base that attempt used.
C10_BackoffMonotoneAndCapped ==
  [][\A c \in Slots :
       (call[c].pc # "backoff" /\ call'[c].pc = "backoff")
       => LET m == call'[c]
              net == analyzeError(m.lastError).isNetworkError
          IN /\ m.delay <= DelayCap
             /\ m.delay >= Capped(m.exponentialDelay)
             /\ m.delay < m.exponentialDelay + JitterRange
             /\ m.attempt \in 1..MaxRetries
             /\ m.exponentialDelay = ExponentialDelay(net, m.attempt)
             /\ \A a \in 1..(m.attempt - 1) : \A b \in BOOLEAN :
                  Capped(ExponentialDelay(b, a)) <= Capped(m.exponentialDelay)
             /\ \A b \in BOOLEAN : \A a \in 1..MaxRetries : \A j \in Jitters :
                  /\ BackoffDelay(ExponentialDelay(b, a), j) <= DelayCap
                  /\ a < MaxRetries =>
                       BackoffDelay(ExponentialDelay(b, a), 0)
                         <= BackoffDelay(ExponentialDelay(b, a + 1), 0)]_vars

C10_Witness ==
  \E c \in Slots :
    /\ call[c].pc = "backoff" /\ call[c].attempt = 4
    /\ call[c].exponentialDelay > DelayCap /\ call[c].delay = DelayCap

\* the result of a finished analyzeError call
Classified == probe.op = "analyzeError" /\ probe.done

\* the needles of the kind found in the lower-cased message
Matches(error, kind) ==
  \E t \in KindTriggers(kind) : Includes(MessageToLowerCase(error.message), t)

\* C11: analyzeError answers for every message with one of the seven kinds;
\* isNetworkError is true exactly for NETWORK_ERROR and TIMEOUT_ERROR,
\* isRetryable is false exactly for AUTH_ERROR and INVALID_REQUEST_ERROR, and
\* a message without any needle is UNKNOWN_ERROR, not a network error and
\* retryable.
C11_FlagsFollowKind ==
  Classified =>
    LET r == probe.result
    IN /\ r.type \in {KindOrder[i] : i \in 1..Len(KindOrder)} \cup {"UNKNOWN_ERROR"}
       /\ r.isNetworkError <=> r.type \in {"NETWORK_ERROR", "TIMEOUT_ERROR"}
       /\ ~r.isRetryable <=> r.type \in {"AUTH_ERROR", "INVALID_REQUEST_ERROR"}
       /\ (\A i \in 1..Len(KindOrder) : ~Matches(probe.error, KindOrder[i]))
            => r = ErrorInfo("UNKNOWN_ERROR", FALSE, TRUE)

C11_Witness ==
  /\ Classified /\ probe.result.type = "TIMEOUT_ERROR" /\ probe.result.isNetworkError
  /\ probe.error.message = {"Timed Out"}

\* C12: analyzeError answers with the first kind, in the order NETWORK_ERROR,
\* AUTH_ERROR, RATE_LIMIT_ERROR, TIMEOUT_ERROR, SERVER_ERROR,
\* INVALID_REQUEST_ERROR, that has a needle in the message, whatever needles
\* of later kinds the message also holds.
C12_FirstKindInOrderWins ==
  Classified =>
    \A i \in 1..Len(KindOrder) :
      (Matches(probe.error, KindOrder[i])
       /\ \A j \in 1..(i - 1) : ~Matches(probe.error, KindOrder[j]))
      => probe.result.type = KindOrder[i]

C12_Witness ==
  /\ Classified /\ probe.error.message = {"timeout", "read ECONNRESET"}
  /\ probe.result.type = "NETWORK_ERROR"

\* C13: on the prompt "Which is a stable sort? A) QuickSort B) MergeSort
\* C) HeapSort D) Bubble Sort" with the model answer "Answer: B" the prompt is
\* classified as an MCQ and the result begins with "## Answer: B" and shows
\* **MergeSort**.
StartsWith(text, word) == Len(text) >= Len(word) /\ SubSeq(text, 1, Len(word)) = word

Extracted == probe.op = "extractMcqAnswer" /\ probe.runs >= 1

C13_StableSortExample ==
  (Extracted /\ probe.originalText = OneLinePrompt /\ probe.response = AnswerB)
    => /\ isMcq(probe.originalText)
       /\ StartsWith(probe.result, <<"#", "#", " ", "A", "n", "s", "w", "e", "r", ":", " ", "B">>)
       /\ TextIncludes(probe.result, <<"*", "*", "M", "e", "r", "g", "e", "S", "o", "r", "t", "*", "*">>)

\* C14: for every prompt classified as an MCQ and every answer, extracting
\* from the result of an extraction detects the same letter and option text
\* and returns that result unchanged.
C14_ExtractionIdempotent ==
  (probe.op = "extractMcqAnswer" /\ probe.runs = 2 /\ isMcq(probe.originalText))
    => /\ probe.again = probe.result
       /\ extractedAnswer(probe.result) = extractedAnswer(probe.response)

\* C15: the payload built from a Request has contents of the same length and,
\* at each position, the same role and the same text in every text part.
Transformed == probe.op = "transformRequestForHttpTransport" /\ probe.done

SameTurn(turn, sent) ==
  /\ sent.role = turn.role
  /\ Len(sent.parts) = Len(turn.parts)
  /\ \A j \in 1..Len(turn.parts) :
       Has(turn.parts[j], "text")
         => Has(sent.parts[j], "text") /\ sent.parts[j].text = turn.parts[j].text

C15_TurnsPreserved ==
  Transformed
    => /\ Has(probe.payload, "contents")
       /\ Len(probe.payload.contents) = Len(probe.request.contents)
       /\ \A i \in 1..Len(probe.request.contents) :
            SameTurn(probe.request.contents[i], probe.payload.contents[i])

C15_Witness ==
  /\ Transformed
  /\ Len(probe.request.contents) = 2
  /\ probe.request.contents[1].role = "model"
  /\ probe.request.contents[2].role = "user"
  /\ probe.request.contents[2].parts = <<[text |-> " two words "]>>
  /\ Has(probe.payload, "system_instruction")

\* C16: between operations, either every credential is in exhaustedKeys or
\* currentKeyIndex designates a credential that is not in exhaustedKeys.
C16_CurrentKeyAvailable ==
  numModels >= 1
    => \/ exhaustedKeys = 0..(numModels - 1)
       \/ currentKeyIndex \notin exhaustedKeys

\* C17: markKeyExhausted(i) adds i to exhaustedKeys and sets currentKeyIndex
\* to (i + 1) mod N, whatever currentKeyIndex was before the call.
Marked == probe.op = "markKeyExhausted"

C17_AdvancesPastMarkedKey ==
  Marked
    => /\ exhaustedKeys = probe.before.exhaustedKeys \cup {probe.keyIndex}
       /\ currentKeyIndex = (probe.keyIndex + 1) % numModels

\* C18: calling markKeyExhausted twice in a row with the same index leaves
\* exhaustedKeys and currentKeyIndex as calling it once does.
C18_MarkingIdempotent ==
  probe.op = "markKeyExhausted twice" => ThePool = probe.once

\* C19: getNextModel on N >= 1 credentials returns the credential at
\* currentKeyIndex if it is not exhausted, otherwise the first one not
\* exhausted in cyclic order, leaving currentKeyIndex there; when all are
\* exhausted it clears exhaustedKeys, sets currentKeyIndex to 0 and returns
\* credential 0; it returns none only for an empty pool.
Got == probe.op = "getNextModel"

\* the keys from cur on, in cyclic order, that are not exhausted
Distance(n, from, to) == (to - from + n) % n

FirstAvailableFrom(n, cur, exh) ==
  CHOOSE k \in (0..(n - 1)) \ exh :
    \A j \in (0..(n - 1)) \ exh : Distance(n, cur, k) <= Distance(n, cur, j)

NextAsSpecified(n) ==
  IF probe.before.exhaustedKeys = 0..(n - 1)
  THEN /\ probe.returned = 0
       /\ ThePool = Pool(0, {})
  ELSE /\ probe.returned =
            FirstAvailableFrom(n, probe.before.currentKeyIndex, probe.before.exhaustedKeys)
       /\ ThePool = Pool(probe.returned, probe.before.exhaustedKeys)

C19_NextOnEveryPoolSize ==
  Got => /\ (probe.returned = Null) <=> (numModels = 0)
         /\ numModels >= 1 => NextAsSpecified(numModels)

C19_NextOnPoolOfTwoOrMore ==
  Got => /\ (probe.returned = Null) <=> (numModels = 0)
         /\ numModels >= 2 => NextAsSpecified(numModels)
         /\ numModels = 1 => probe.returned = 0 /\ ThePool = probe.before

C19_Witness ==
  /\ Got
  /\ numModels = 3
  /\ probe.before = Pool(1, {1, 2})
  /\ probe.returned = 0

\* C20: under every interleaving of overlapping processTextWithSkill calls,
\* when a call's Transport A attempt fails with a network-transport error and
\* Transport B is then attempted, the first credential Transport B uses is the
\* credential of that failed Transport A attempt, whatever rotations of the
\* pool the other calls made meanwhile.
C20_FallbackKeepsCredential ==
  [][\A c \in Slots :
       (/\ call[c].pc = "awaitA"
        /\ call'[c].pc = "awaitB"
        /\ last'[c].by = "A"
        /\ analyzeError(last'[c].error).type = "NETWORK_ERROR")
       => call'[c].keysToTry[call'[c].kpos] = call[c].keyIndex]_vars


\* C21: when a Transport B attempt fails with HTTP 400, 401 or 403, the call
\* makes no further attempt of either transport: the step that receives the
\* failure ends the call.
C21_ClientErrorEndsCall ==
  \A c \in Slots :
    (last[c].by = "B" /\ last[c].error.status \in {400, 401, 403})
      => call[c].pc = "done"


Read(op) == probe.op = op /\ probe.done

\* the first item of an array, undefined for anything else
First(v) == IF IsArray(v) /\ Len(v.items) > 0 THEN v.items[1] ELSE Undefined

\* the text a reply of Transport B carries, undefined when a level is absent
CarriedParts(res) == Get(Get(First(Get(res.data, "candidates")), "content"), "parts")

CarriedText(res) == Get(First(CarriedParts(res)), "text")

\* the text a result of Transport A carries
ResultText(result) == Get(Get(result, "response"), "text()")

BlankText(v) == v.type # "string" \/ \A p \in 1..Len(v.chars) : v.chars[p] \in Whitespace

CleanText(text) ==
  /\ text # <<>>
  /\ text[1] \notin Whitespace
  /\ text[Len(text)] \notin Whitespace

\* C22: every text a transport hands back as a success is non-empty without
\* leading or trailing whitespace, and a reply whose text is missing, empty
\* or whitespace-only is a failed attempt.
C22_SuccessTextIsClean ==
  /\ Read("_makeAlternativeRequest") =>
       /\ probe.outcome.kind = "resolved" => CleanText(probe.outcome.text)
       /\ (probe.reply.statusCode = 200 /\ BlankText(CarriedText(probe.reply)))
            => probe.outcome.kind = "rejected"
  /\ Read("generateContent") =>
       /\ probe.outcome.kind = "resolved" => CleanText(probe.outcome.text)
       /\ BlankText(ResultText(probe.reply)) => probe.outcome.kind = "rejected"

C22_Witness ==
  /\ Read("_makeAlternativeRequest")
  /\ probe.outcome.kind = "resolved"
  /\ CarriedText(probe.reply).chars[1] \in Whitespace


\* C23: when a Transport A attempt fails with a quota / rate-limit error and
\* another credential of the pool is still not exhausted, the call marks the
\* credential it used as exhausted and issues Transport A with another
\* credential in the same step: no backoff sleep, the same attempt number.
C23_QuotaFailureMovesSideways ==
  [][\A c \in Slots :
       (/\ call[c].pc = "awaitA"
        /\ last'[c].by = "A"
        /\ IsQuotaError(last'[c].error, analyzeError(last'[c].error))
        /\ numModels > 1
        /\ exhaustedKeys \cup {call[c].keyIndex} # 0..(numModels - 1))
       => /\ call[c].keyIndex \in exhaustedKeys'
          /\ call'[c].pc = "awaitA"
          /\ call'[c].keyIndex # call[c].keyIndex
          /\ call'[c].attempt = call[c].attempt]_vars


\* C24: when the last permitted attempt of the retry loop fails with a
\* retryable error, the pool has more than one credential and the next
\* credential is not exhausted, the call moves currentKeyIndex to that
\* credential and issues one direct Transport A attempt with it.
C24_LastAttemptTriesNextKey ==
  [][\A c \in Slots :
       (/\ call[c].pc = "awaitA"
        /\ call[c].attempt = MaxRetries
        /\ last'[c].by = "A"
        /\ last'[c].error # NoError
        /\ analyzeError(last'[c].error).isRetryable
        /\ numModels > 1
        /\ (call[c].keyIndex + 1) % numModels \notin exhaustedKeys)
       => /\ call'[c].pc = "awaitDirect"
          /\ call'[c].nextKeyIndex = (call[c].keyIndex + 1) % numModels
          /\ currentKeyIndex' = (call[c].keyIndex + 1) % numModels]_vars


Steps(c) == call'[c] # call[c]

\* C25: one call invokes Transport A at most MaxRetries times in its retry
\* loop and at most once more directly: every invocation in the loop carries
\* a new attempt number of 1..MaxRetries, and nothing follows the direct one.
C25_TransportAInvocationsBounded ==
  [][\A c \in Slots :
       /\ (Steps(c) /\ call'[c].pc = "awaitA")
            => /\ call'[c].attempt \in 1..MaxRetries
               /\ IF call[c].pc = "preflight" THEN call'[c].attempt = 1
                  ELSE call'[c].attempt = call[c].attempt + 1
       /\ (Steps(c) /\ call'[c].pc = "awaitDirect")
            => call[c].pc = "awaitA" /\ call[c].attempt = MaxRetries
       /\ (Steps(c) /\ call[c].pc = "awaitDirect")
            => call'[c].pc \notin {"awaitA", "awaitDirect"}]_vars

C25_Witness ==
  \E c \in Slots : call[c].pc = "awaitA" /\ call[c].attempt = MaxRetries


\* C26: the backoff slept after failed attempt k is
\* min(base * 2^(k-1) + jitter, 10000) ms with jitter in [0, 1000), base 2000
\* when the failure is a NETWORK_ERROR or a TIMEOUT_ERROR and 1000 otherwise,
\* and there is no backoff after the last attempt. (A delay below the cap
\* is the sum itself; a delay at the cap is a sum of 10000 or more.)
C26_BackoffByAttemptAndKind ==
  [][\A c \in Slots :
       (Steps(c) /\ call'[c].pc = "backoff")
       => LET k == call'[c].attempt
              kind == analyzeError(call'[c].lastError).type
              base == IF kind \in {"NETWORK_ERROR", "TIMEOUT_ERROR"} THEN 2000 ELSE 1000
          IN /\ k \in 1..(MaxRetries - 1)
             /\ LET jitter == call'[c].delay - base * (2 ^ (k - 1))
                IN IF call'[c].delay < 10000 THEN jitter \in 0..999
                   ELSE call'[c].delay = 10000 /\ jitter <= 999]_vars

C26_Witness ==
  \E c \in Slots :
    /\ call[c].pc = "backoff"
    /\ call[c].attempt = 2
    /\ analyzeError(call[c].lastError).type = "TIMEOUT_ERROR"
    /\ call[c].delay = 4999


\* C27: one invocation of executeAlternativeRequest makes at most 3 HTTP
\* attempts over all its credentials (every credential before the current
\* one took an attempt at least), sleeps 2000 ms after the first failed
\* attempt and 4000 ms after the second, and does not sleep after the last.
C27_AtMostThreeAlternativeAttempts ==
  [][\A c \in Slots :
       Steps(c) =>
         /\ call'[c].pc = "awaitB"
              => (call'[c].kpos - 1) + call'[c].altAttempt <= 3
         /\ call'[c].pc = "altBackoff"
              => /\ call'[c].altAttempt < 3
                 /\ call'[c].delay = 2000 * (2 ^ (call'[c].altAttempt - 1))]_vars


\* the failures the claim names as retried
NamedRetryable(error) ==
  LET message == MessageToLowerCase(error.message)
  IN \/ error.status \in {429, 503} \cup 500..504
     \/ Includes(message, "timeout")
     \/ Includes(message, "econnreset") \/ Includes(message, "connection reset")
     \/ Includes(message, "socket hang up")

\* C28: while attempts remain, a failed attempt of executeAlternativeRequest
\* is retried with the same credential after a backoff exactly when the
\* failure is HTTP 429, 503, 500..504, a timeout, a connection reset or a
\* socket hang up; HTTP 400, 401 and 403 are never retried.
C28_RetriedExactlyWhenTransient ==
  [][\A c \in Slots :
       (/\ call[c].pc = "awaitB"
        /\ last'[c].by = "B"
        /\ last'[c].error # NoError
        /\ call[c].altAttempt < AltMaxRetries)
       => ((call'[c].pc = "altBackoff" /\ call'[c].kpos = call[c].kpos)
             <=> NamedRetryable(last'[c].error))]_vars


\* a reply with status 200 whose body is an object without an error property
\* and whose first candidate is not cut at MAX_TOKENS
PlainReply(res) ==
  /\ res.statusCode = 200
  /\ res.data.type = "object"
  /\ ~Truthy(Get(res.data, "error"))
  /\ Get(First(Get(res.data, "candidates")), "finishReason") # MaxTokens

\* the failure named for the first level of the reply that is missing
\* (absent or null), "none" when every level is present
NamedFailure(res) ==
  LET candidates == Get(res.data, "candidates")
      content == Get(First(candidates), "content")
      parts == Get(content, "parts")
      text == Get(First(parts), "text")
  IN IF Nullish(candidates) THEN "Invalid response structure: missing candidates array"
     ELSE IF ~IsArray(candidates) \/ Len(candidates.items) = 0
     THEN "Invalid response structure: candidates array is empty"
     ELSE IF Nullish(content) THEN "Invalid response structure: candidate missing content"
     ELSE IF Nullish(parts) THEN "Invalid response structure: content missing parts"
     ELSE IF ~IsArray(parts) \/ Len(parts.items) = 0
     THEN "Invalid response structure: parts array is empty"
     ELSE IF Nullish(text) THEN "Invalid response structure: part missing text"
     ELSE IF BlankText(text) THEN "Empty or invalid text content in Gemini response"
     ELSE "none"

\* C29: for an HTTP 200 reply without finishReason MAX_TOKENS,
\* _makeAlternativeRequest rejects with the failure named for the first
\* missing level (candidates, its first item, content, parts, its first
\* item, text, text after trimming) and resolves when every level is present.
C29_FirstMissingLevelNamed ==
  (Read("_makeAlternativeRequest") /\ PlainReply(probe.reply))
    => IF NamedFailure(probe.reply) = "none"
       THEN probe.outcome.kind = "resolved"
       ELSE /\ probe.outcome.kind = "rejected"
            /\ probe.outcome.error.message = {NamedFailure(probe.reply)}


\* a reply with status 200 whose body is an object without an error property
\* and whose first candidate has content and finishReason MAX_TOKENS
TruncatedReply(res) ==
  /\ res.statusCode = 200
  /\ res.data.type = "object"
  /\ ~Truthy(Get(res.data, "error"))
  /\ Get(First(Get(res.data, "candidates")), "finishReason") = MaxTokens
  /\ Truthy(Get(First(Get(res.data, "candidates")), "content"))

NoParts(parts) == Nullish(parts) \/ ~IsArray(parts) \/ Len(parts.items) = 0

\* the parts that carry a text with something other than whitespace
TextParts(parts) ==
  {k \in 1..Len(parts.items) : ~BlankText(Get(parts.items[k], "text"))}

\* a token count of usageMetadata, 0 when the reply has none
TokenCount(res, key) ==
  LET count == Get(Get(res.data, "usageMetadata"), key)
  IN IF count.type = "number" THEN count.number ELSE 0

\* C30: a reply cut at MAX_TOKENS with at least one part with non-empty text
\* is accepted and resolves with that partial text (trimmed); a reply cut at
\* MAX_TOKENS with no parts (missing, not an array, or empty) is rejected
\* with the truncation failure that quotes the thoughts-token and the
\* total-token count of usageMetadata.
C30_TruncatedReplies ==
  (Read("_makeAlternativeRequest") /\ TruncatedReply(probe.reply))
    => LET parts == CarriedParts(probe.reply)
       IN IF NoParts(parts)
          THEN /\ probe.outcome.kind = "rejected"
               /\ probe.outcome.error.message =
                    {"Response truncated: MAX_TOKENS limit reached with no content",
                     "Thoughts tokens: ", "Total tokens: "}
               /\ probe.outcome.counts = <<TokenCount(probe.reply, "thoughtsTokenCount"),
                                           TokenCount(probe.reply, "totalTokenCount")>>
          ELSE TextParts(parts) # {}
                 => /\ probe.outcome.kind = "resolved"
                    /\ \E k \in TextParts(parts) :
                         probe.outcome.text = Trim(Get(parts.items[k], "text").chars)


CamelCaseKeys ==
  {"systemInstruction", "generationConfig", "maxOutputTokens", "topK", "topP",
   "inlineData", "fileData"}

PartKeys(parts) == UNION {DOMAIN parts[j] : j \in 1..Len(parts)}

\* the keys of the payload at every level: the payload itself, its
\* generation_config, the parts of its turns and of its system instruction
PayloadKeys(payload) ==
  DOMAIN payload
    \cup (IF Has(payload, "generation_config") THEN DOMAIN payload.generation_config ELSE {})
    \cup (IF Has(payload, "system_instruction")
          THEN PartKeys(payload.system_instruction.parts) ELSE {})
    \cup (IF Has(payload, "contents")
          THEN UNION {PartKeys(payload.contents[i].parts) : i \in 1..Len(payload.contents)}
          ELSE {})

\* C31: the payload of transformRequestForHttpTransport has snake_case names
\* throughout: system_instruction, contents and generation_config with the
\* keys temperature, max_output_tokens, top_k and top_p; no camelCase key of
\* the Request is a key of the payload.
C31_SnakeCasePayload ==
  Transformed
    => /\ DOMAIN probe.payload \subseteq {"system_instruction", "contents", "generation_config"}
       /\ Has(probe.payload, "generation_config")
            => DOMAIN probe.payload.generation_config
                 = {"temperature", "max_output_tokens", "top_k", "top_p"}
       /\ PayloadKeys(probe.payload) \cap CamelCaseKeys = {}


\* the attempts whose timer fired while generateContent was still pending
TimedOut(attempts) == {i \in 1..Len(attempts) : attempts[i].first = "timer"}

\* C32: an attempt whose timer fires before generateContent settles fails
\* with an error classified TIMEOUT_ERROR, and a result that generateContent
\* delivers after the deadline is discarded: it leaves the outcome of that
\* attempt and of every other attempt of the call as it was.
C32_LateResultDiscarded ==
  [][probe.op = "Promise.race"
       => /\ \A i \in TimedOut(probe.attempts') :
               LET outcome == AttemptOutcome(probe.attempts'[i].race)
               IN /\ outcome.kind = "rejected"
                  /\ analyzeError(outcome.error).type = "TIMEOUT_ERROR"
          /\ \A i \in TimedOut(probe.attempts) :
               probe.attempts'[i].request # probe.attempts[i].request
                 => /\ Len(probe.attempts') = Len(probe.attempts)
                    /\ \A j \in 1..Len(probe.attempts) :
                         AttemptOutcome(probe.attempts'[j].race)
                           = AttemptOutcome(probe.attempts[j].race)]_vars

\* the first attempt timed out, the second is under way, and generateContent
\* of the first attempt has delivered a result after all
C32_Witness ==
  /\ probe.op = "Promise.race"
  /\ Len(probe.attempts) = 2
  /\ probe.attempts[1].first = "timer"
  /\ probe.attempts[1].request.kind = "fulfilled"
  /\ AttemptOutcome(probe.attempts[1].request).kind = "resolved"
  /\ probe.attempts[2].race = Pending


\* a model answer of the form "Answer: X" with X one of A..E
AnswerForm(response) ==
  /\ Len(response) = 9
  /\ SubSeq(response, 1, 8) = <<"A", "n", "s", "w", "e", "r", ":", " ">>
  /\ response[9] \in {"A", "B", "C", "D", "E"}

\* C33: for every prompt classified as an MCQ and every model answer of the
\* form "Answer: X" with X in A..E, the letter that extractMcqAnswer extracts
\* and names in the "## Answer:" heading is X.
C33_AnswerFormLetter ==
  (Extracted /\ isMcq(probe.originalText) /\ AnswerForm(probe.response))
    => /\ extractedAnswer(probe.response) = probe.response[9]
       /\ StartsWith(probe.result,
                     <<"#", "#", " ", "A", "n", "s", "w", "e", "r", ":", " ",
                       probe.response[9]>>)


QuotaFailure(error) ==
  \/ error.status \in {429, 503}
  \/ \E needle \in {"quota", "rate limit", "overloaded"} :
       Includes(MessageToLowerCase(error.message), needle)

\* C36: a credential index enters exhaustedKeys only in a step in which a
\* transport attempt made with that very credential failed with a
\* quota/rate-limit/overload error, so between two pool resets every flagged
\* index has had such a failure; no index is flagged for a failure of another
\* credential or of another kind.
C36_FlaggedOnlyForOwnQuotaFailure ==
  [][\A key \in exhaustedKeys' \ exhaustedKeys :
       \E c \in Slots :
         /\ Steps(c)
         /\ last'[c].by \in {"A", "B"}
         /\ last'[c].key = key
         /\ last'[c].error # NoError
         /\ QuotaFailure(last'[c].error)]_vars

\* the second credential has just been flagged while the first one is the
\* current one of the other call
C36_Witness ==
  /\ exhaustedKeys = {1}
  /\ \E c \in Slots :
       /\ last[c] = [by |-> "B", key |-> 1, error |-> Err({"HTTP 429"}, 429)]
       /\ \E d \in Slots \ {c} : call[d].pc = "awaitA" /\ call[d].keyIndex = 0


\* C37: the metadata.requestId a call returns is the value requestCount had
\* right after that call's own increment, so two distinct calls never report
\* the same requestId, however the calls interleave.
C37_RequestIdsDistinct ==
  \A c \in Slots : \A d \in Slots \ {c} :
    (Returned(c) /\ Returned(d))
      => call[c].outcome.metadata.requestId # call[d].outcome.metadata.requestId


\* the call is inside an executeAlternativeRequest invoked from the retry loop
InLoopAlternative(l) ==
  l.pc \in {"awaitB", "altBackoff"} /\ l.ctx \in {"loop", "loopNext"}

\* this step of call c received the failure of a Transport A attempt of the loop
LoopAttemptFails(c) ==
  /\ Steps(c)
  /\ call[c].pc = "awaitA"
  /\ last'[c].by = "A"
  /\ last'[c].error # NoError

\* the failure is a NETWORK_ERROR of outer attempt 1 or 2 with the fallback on
FallbackCase(c) ==
  /\ analyzeError(last'[c].error).type = "NETWORK_ERROR"
  /\ enableFallbackMethod
  /\ call[c].attempt <= 2

AlternativeQuotaFailure(c) ==
  /\ Steps(c)
  /\ call[c].pc = "awaitB"
  /\ last'[c].by = "B"
  /\ last'[c].error # NoError
  /\ QuotaFailure(last'[c].error)

\* C39: in executeAlternativeRequest an attempt that fails with HTTP 429 or
\* 503 (or a quota, rate limit or overloaded message) marks the credential it
\* used as exhausted and moves straight to the next credential of keysToTry,
\* with no retry of that credential and no backoff sleep; on the last
\* credential the invocation fails with that error.
C39_QuotaFailureMovesToNextCredential ==
  [][\A c \in Slots :
       AlternativeQuotaFailure(c)
         => LET l == call[c]
                key == l.keysToTry[l.kpos]
            IN /\ last'[c].key = key
               /\ key \in exhaustedKeys' \/ call'[c].resets > l.resets
               /\ call'[c].pc # "altBackoff"
               /\ IF l.kpos < Len(l.keysToTry)
                  THEN /\ call'[c].pc = "awaitB"
                       /\ call'[c].ctx = l.ctx
                       /\ call'[c].keysToTry = l.keysToTry
                       /\ call'[c].kpos = l.kpos + 1
                       /\ call'[c].altAttempt = 1
                  ELSE /\ call'[c].pc = "awaitB" => call'[c].ctx # l.ctx
                       /\ (call'[c].pc = "done" /\ call'[c].outcome.kind = "raised")
                            => call'[c].outcome.error = Raw(last'[c].error)]_vars

\* the first credential was answered HTTP 429 and the request to the second
\* one is under way
C39_Witness ==
  \E c \in Slots :
    /\ call[c].pc = "awaitB"
    /\ call[c].keysToTry = <<0, 1>>
    /\ call[c].kpos = 2
    /\ call[c].altAttempt = 1
    /\ last[c] = [by |-> "B", key |-> 0, error |-> Err({"HTTP 429"}, 429)]
    /\ exhaustedKeys = {0}


\* this step of call c ends at the first request of a new invocation of
\* executeAlternativeRequest
EntersAlternative(c) ==
  /\ Steps(c)
  /\ call'[c].pc = "awaitB"
  /\ call'[c].kpos = 1
  /\ call'[c].altAttempt = 1
  /\ call[c].pc \notin {"awaitB", "altBackoff"} \/ call'[c].ctx # call[c].ctx

\* exhaustedKeys when that invocation is entered: the failure that ended the
\* previous invocation may have flagged its credential in the same step
ExhaustedAtEntry(c) ==
  IF last'[c].by = "B" /\ last'[c].error # NoError /\ QuotaFailure(last'[c].error)
  THEN exhaustedKeys \cup {last'[c].key}
  ELSE exhaustedKeys

====
